---- MODULE Spec2Model ----
(***************************************************************************)
(* Job execution model of the video-editor backend                         *)
(* (backend/app/workers/tasks.py), the remote-task poll loop               *)
(* (backend/app/services/piapi.py) and the job-status pub/sub channel      *)
(* (backend/app/core/redis.py, backend/app/api/v1/websocket.py).           *)
(*                                                                         *)
(* One job id is executed by a Celery worker.  A task body is a sequence   *)
(* of steps (Prog_<task>); every step that calls the database, Redis, the  *)
(* blob store or an external tool can raise.  Progress values are floats   *)
(* in the code and whole percents here.                                    *)
(*                                                                         *)
(* The pure functions of backend/app/services (ffmpeg.py, auto_edit.py,    *)
(* smart_edit.py) are modelled one call at a time in `call`, each with its *)
(* own specification (SpecAtempo, SpecEffects, SpecExport, SpecSilence,    *)
(* SpecBeat, SpecHighlights, SpecMontage); floats are fixed-point numbers. *)
(* SpecAtempoAnyFair runs _build_atempo_chain to its end for any speed.    *)
(*                                                                         *)
(* The project room of backend/app/api/v1/websocket.py (SpecRooms) is one  *)
(* asyncio event loop: the code between two awaits that suspend is one     *)
(* step.                                                                   *)
(***************************************************************************)
EXTENDS Integers, Sequences, FiniteSets, TLC

VARIABLES
    inp,        \* the job as created by the API: task kind and input_params
    phase,      \* "queued" | "run" | "except" | "retry" | "done"
    idx,        \* position in the task body while phase = "run"
    retries,    \* self.request.retries of the current execution
    attempts,   \* number of executions of the task started so far
    jobLoaded,  \* the local `job` is bound to a ProcessingJob
    db,         \* committed ProcessingJob row (status, progress, result, error)
    mem,        \* the session's ProcessingJob object (uncommitted attributes)
    rows,       \* committed Asset rows created for this job
    pending,    \* Asset rows added and flushed, not yet committed
    blob,       \* objects stored in MinIO
    tmp,        \* local temporary files that exist
    published,  \* the message Redis PUBLISH accepted last (NoMsg: none yet)
    relayed,    \* the message the WebSocket listener received last
    subscribed, \* channels the listener's PubSub is subscribed to
    exc,        \* the exception being handled: [kind, len], or NoExc
    events,     \* progress events seen in the current external call
    lastReport, \* last value the external tool reported in the current call
    hist,       \* statuses that were ever committed for the job
    lastUpdate, \* how the last _update_job_status call ended
    poll,       \* state of one poll_task call (specification SpecPoll)
    call,       \* state of one call of a service function (SpecAtempo, ...)
    project_rooms, \* _project_rooms[project_id] of one project (SpecRooms)
    conn,       \* per client, its project_websocket handler: pc, listener_task
    listeners,  \* per task id, the state of that _redis_listener task
    copies      \* per client, the job_status copies of the last message sent

\* the state of the WebSocket endpoint
wsvars == << project_rooms, conn, listeners, copies >>

vars == << inp, phase, idx, retries, attempts, jobLoaded, db, mem, rows,
           pending, blob, tmp, published, relayed, subscribed, exc, events,
           lastReport, hist, lastUpdate, poll, call, wsvars >>

jobvars == << inp, phase, idx, retries, attempts, jobLoaded, db, mem, rows,
              pending, blob, tmp, published, relayed, subscribed, exc, events,
              lastReport, hist, lastUpdate >>

Min(a, b) == IF a <= b THEN a ELSE b

\* the clients that connect to the project room, and the ids of the
\* _redis_listener tasks that may be alive together
MaxClients == 3
MaxListeners == 3
Clients == 1..MaxClients
ListenerIds == 1..MaxListeners

\* listener_task: asyncio.Task | None = None
NoTask == 0

\* project_id not in _project_rooms
NoRoom == [present |-> FALSE, members |-> {}]

\* no connection, no listener task
RoomsIdle ==
    /\ project_rooms = NoRoom
    /\ conn = [c \in Clients |-> [pc |-> "closed", listener_task |-> NoTask]]
    /\ listeners = [l \in ListenerIds |-> "none"]
    /\ copies = [c \in Clients |-> 0]

(***************************************************************************)
(* Bounds of the model                                                     *)
(***************************************************************************)
\* progress lines / callbacks observed during one external call
MaxProgressEvents == 2

(***************************************************************************)
(* Program constants                                                       *)
(***************************************************************************)
JobId == 1
\* str(exc)[:2000]
ErrorLimit == 2000
\* error_message is NULL
NoError == -1
\* min(95.0, ...) in export_video
ExportClamp == 95
\* min(70.0, ...) in the download and AI-video callbacks
CallbackClamp == 70
\* project.duration_ms of the exported project
TotalDurationMs == 5000

PENDING == "pending"
PROCESSING == "processing"
COMPLETED == "completed"
FAILED == "failed"

JOB_STATUS_CHANNEL == "job_status"

WorkerChannel(job_id) == "job:" \o ToString(job_id) \o ":progress"

\* lengths of str(exc): a short message, and one longer than the limit
ShortError == 40
LongError == 2500
\* time= values ffmpeg can report, in ms (the last one beyond the project end)
TimeSteps == {0, 2500, 5000, 7500}
\* percentages a download hook or the remote AI task can report; within one
\* call the reported values (ffmpeg's time=, the percentages) do not decrease
PctSteps == {0, 50, 100}

NoExc == [kind |-> "none", len |-> 0]

(***************************************************************************)
(* Task bodies                                                             *)
(***************************************************************************)
St(op, a, try) == [op |-> op, a |-> a, try |-> try]

Prog_export_video ==
    << St("load", "job", FALSE),
       St("start", 0, FALSE),
       St("validate", "ref", FALSE),
       St("mktemp", "out", FALSE),
       St("build_cmd", "srt", TRUE),
       St("ffmpeg", "run", TRUE),
       St("publish", 95, TRUE),
       St("upload", "artifact", TRUE),
       St("call", "presign", TRUE),
       St("complete", 100, TRUE),
       St("return", "ok", TRUE) >>

Prog_process_audio ==
    << St("load", "job", FALSE),
       St("start", 0, FALSE),
       St("validate", "field", FALSE),
       St("fetch", "src", FALSE),
       St("mktemp", "out", FALSE),
       St("publish", 10, TRUE),
       St("validate", "op", TRUE),
       St("call", "audio_filter", TRUE),
       St("publish", 80, TRUE),
       St("upload", "artifact", TRUE),
       St("call", "presign", TRUE),
       St("complete", 100, TRUE),
       St("return", "ok", TRUE) >>

Prog_download_video ==
    << St("load", "job", FALSE),
       St("start", 0, FALSE),
       St("validate", "field", FALSE),
       St("download", "dl", FALSE),
       St("publish", 75, TRUE),
       St("upload", "artifact", TRUE),
       St("publish", 90, TRUE),
       St("add_asset", "asset", TRUE),
       St("commit", "rows", TRUE),
       St("complete", 100, TRUE),
       St("delay", "process_asset_metadata", TRUE),
       St("return", "ok", TRUE) >>

Prog_auto_edit_video ==
    << St("load", "job", FALSE),
       St("start", 0, FALSE),
       St("validate", "field", FALSE),
       St("fetch", "src", FALSE),
       St("mktemp", "out", FALSE),
       St("publish", 10, TRUE),
       St("silence", "segdir", TRUE),
       St("publish", 80, TRUE),
       St("upload", "artifact", TRUE),
       St("call", "presign", TRUE),
       St("add_asset", "asset", TRUE),
       St("complete", 100, TRUE),
       St("delay", "process_asset_metadata", TRUE),
       St("return", "ok", TRUE) >>

Prog_generate_ai_video ==
    << St("load", "job", FALSE),
       St("start", 0, FALSE),
       St("validate", "field", FALSE),
       St("publish", 5, FALSE),
       St("call", "create_task", FALSE),
       St("publish", 10, FALSE),
       St("poll", "piapi", FALSE),
       St("publish", 75, FALSE),
       St("call", "get_video_url", FALSE),
       St("mktemp", "out", FALSE),
       St("call", "http_download", TRUE),
       St("publish", 85, TRUE),
       St("upload", "artifact", TRUE),
       St("publish", 92, TRUE),
       St("add_asset", "asset", TRUE),
       St("complete", 100, TRUE),
       St("delay", "process_asset_metadata", TRUE),
       St("return", "ok", TRUE) >>

\* smart_edit_task with operation = "montage" (or an unknown operation)
Prog_smart_edit_task ==
    << St("load", "job", FALSE),
       St("start", 0, FALSE),
       St("validate", "op", FALSE),
       St("validate", "field", FALSE),
       St("publish", 10, FALSE),
       St("validate", "ref", FALSE),
       St("publish", 40, FALSE),
       St("call", "build_montage_clips", FALSE),
       St("publish", 90, FALSE),
       St("complete", 100, FALSE),
       St("return", "ok", FALSE) >>

Kinds == {"export_video", "process_audio", "download_video",
          "auto_edit_video", "generate_ai_video", "smart_edit_task"}

Prog(k) ==
    CASE k = "export_video" -> Prog_export_video
      [] k = "process_audio" -> Prog_process_audio
      [] k = "download_video" -> Prog_download_video
      [] k = "auto_edit_video" -> Prog_auto_edit_video
      [] k = "generate_ai_video" -> Prog_generate_ai_video
      [] k = "smart_edit_task" -> Prog_smart_edit_task

\* max_retries of the task decorator
MaxRetries(k) == IF k = "generate_ai_video" THEN 1 ELSE 2

\* files the task's inner `finally` removes
Finally(k) ==
    CASE k = "export_video" -> {"out"}
      [] k = "process_audio" -> {"src", "out"}
      [] k = "download_video" -> {"dl"}
      [] k = "auto_edit_video" -> {"src", "out"}
      [] k = "generate_ai_video" -> {"out"}
      [] k = "smart_edit_task" -> {}

\* the job's result names an uploaded artifact
HasArtifact(k) == k # "smart_edit_task"

\* the validation checks a task body performs
ChecksOf(k) ==
    {Prog(k)[i].a : i \in {j \in DOMAIN Prog(k) : Prog(k)[j].op = "validate"}}

(***************************************************************************)
(* Database session, Redis publish                                         *)
(***************************************************************************)
\* progress=None in a call of _update_job_status
NoProgress == -1

NoMsg == [job_id |-> 0, chan |-> "", status |-> "", progress |-> 0]

Msg(status, progress) ==
    [job_id |-> JobId, chan |-> WorkerChannel(JobId),
     status |-> status, progress |-> progress]

\* Redis PUBLISH: exact-match delivery to the subscribers of the channel
RedisPublish(m) ==
    /\ published' = m
    /\ relayed' = IF m.chan \in subscribed THEN m ELSE relayed

\* _publish_progress(job_id, progress); ok = FALSE: the publish raises
publish_progress(progress, ok) ==
    IF ok THEN RedisPublish(Msg(PROCESSING, progress))
          ELSE UNCHANGED << published, relayed >>

\* the attribute assignments at the top of _update_job_status
SetJob(job, status, progress, result, error_message) ==
    [status |-> status,
     progress |-> IF progress # NoProgress THEN progress ELSE job.progress,
     result |-> IF result # "none" THEN result ELSE job.result,
     error |-> IF error_message # NoError THEN error_message ELSE job.error]

\* session.commit(): the job attributes and the pend flushed rows are stored
SessionCommit(job, pend) ==
    /\ db' = job
    /\ rows' = rows + pend
    /\ pending' = 0
    /\ hist' = hist \cup {job.status}

UpdateOutcomes == {"ok", "commit_raises", "publish_raises"}

\* variant: the message is published before the commit
update_job_status_early(job0, pend, status, progress, result, error_message, oc) ==
    LET job == SetJob(job0, status, progress, result, error_message) IN
    /\ mem' = job
    /\ lastUpdate' = oc
    /\ IF oc = "publish_raises"
          THEN UNCHANGED << published, relayed >>
          ELSE RedisPublish(Msg(status, job.progress))
    /\ IF oc = "commit_raises"
          THEN pending' = pend /\ UNCHANGED << db, rows, hist >>
          ELSE SessionCommit(job, pend)

\* _update_job_status(session, job, status, progress=, result=, error_message=)
\* job0, pend: the session's job object and flushed rows at the call;
\* oc: which of its two external calls raises, if any
update_job_status(job0, pend, status, progress, result, error_message, oc) ==
    LET job == SetJob(job0, status, progress, result, error_message) IN
    /\ mem' = job
    /\ lastUpdate' = oc
    /\ IF oc = "commit_raises"
          THEN /\ pending' = pend
               /\ UNCHANGED << db, rows, hist, published, relayed >>
          ELSE /\ SessionCommit(job, pend)
               /\ IF oc = "ok"
                     THEN RedisPublish(Msg(status, job.progress))
                     ELSE UNCHANGED << published, relayed >>

(***************************************************************************)
(* Control flow of one execution                                           *)
(***************************************************************************)
Cur == Prog(inp.kind)[idx]

AtOp(o) == phase = "run" /\ Cur.op = o

\* an exception leaves the task body: the inner `finally` runs when the
\* step is inside the inner try block, then the `except Exception` handler
Raise(k, len, files) ==
    /\ phase' = "except"
    /\ exc' = [kind |-> k, len |-> len]
    /\ tmp' = IF Cur.try THEN files \ Finally(inp.kind) ELSE files
    /\ events' = 0
    /\ lastReport' = 0
    /\ UNCHANGED idx

\* the step returned: go on with the next statement
Advance(files) ==
    /\ idx' = idx + 1
    /\ tmp' = files
    /\ events' = 0
    /\ lastReport' = 0
    /\ UNCHANGED << phase, exc >>

\* Celery starts an execution of the task: get_sync_session()
BeginExecution ==
    /\ phase' = "run"
    /\ idx' = 1
    /\ attempts' = attempts + 1
    /\ mem' = db
    /\ pending' = 0
    /\ jobLoaded' = FALSE
    /\ exc' = NoExc
    /\ events' = 0
    /\ lastReport' = 0

\* the worker takes the task message that the API sent with .delay(job.id)
WorkerStart ==
    /\ phase = "queued"
    /\ BeginExecution
    /\ UNCHANGED << inp, retries, db, rows, blob, tmp, published, relayed,
                    subscribed, hist, lastUpdate,
                    poll, call, wsvars >>

\* job = session.get(ProcessingJob, job_id); if job is None: raise ValueError
Load ==
    /\ AtOp("load")
    /\ IF inp.jobExists
          THEN jobLoaded' = TRUE /\ Advance(tmp)
          ELSE jobLoaded' = FALSE /\ Raise("validation", ShortError, tmp)
    /\ UNCHANGED << inp, retries, attempts, db, mem, rows, pending, blob,
                    published, relayed, subscribed, hist, lastUpdate,
                    poll, call, wsvars >>

\* _update_job_status(session, job, PROCESSING, progress=0.0)
Start ==
    /\ AtOp("start")
    /\ \E oc \in UpdateOutcomes :
         /\ update_job_status(mem, pending, PROCESSING, Cur.a, "none", NoError, oc)
         /\ IF oc = "ok" THEN Advance(tmp)
                         ELSE Raise("transient", ShortError, tmp)
    /\ UNCHANGED << inp, retries, attempts, jobLoaded, blob, subscribed, poll, call, wsvars >>

\* if not <required input>: raise ValueError(...)
Validate ==
    /\ AtOp("validate")
    /\ IF inp.badInput = Cur.a
          THEN Raise("validation", ShortError, tmp)
          ELSE Advance(tmp)
    /\ UNCHANGED << inp, retries, attempts, jobLoaded, db, mem, rows, pending,
                    blob, published, relayed, subscribed, hist, lastUpdate,
                    poll, call, wsvars >>

\* tempfile.NamedTemporaryFile(delete=False)
MkTemp ==
    /\ AtOp("mktemp")
    /\ Advance(tmp \cup {Cur.a})
    /\ UNCHANGED << inp, retries, attempts, jobLoaded, db, mem, rows, pending,
                    blob, published, relayed, subscribed, hist, lastUpdate,
                    poll, call, wsvars >>

\* _download_from_minio: the temp file is created, then fget_object may raise
Fetch ==
    /\ AtOp("fetch")
    /\ \E ok \in BOOLEAN :
         IF ok THEN Advance(tmp \cup {Cur.a})
               ELSE Raise("transient", ShortError, tmp \cup {Cur.a})
    /\ UNCHANGED << inp, retries, attempts, jobLoaded, db, mem, rows, pending,
                    blob, published, relayed, subscribed, hist, lastUpdate,
                    poll, call, wsvars >>

\* ffmpeg_service.build_export_command: with subtitle segments and a video
\* clip it writes the caption file (_generate_temp_srt) and returns only cmd
BuildCmd ==
    /\ AtOp("build_cmd")
    /\ Advance(IF inp.hasSubs THEN tmp \cup {Cur.a} ELSE tmp)
    /\ UNCHANGED << inp, retries, attempts, jobLoaded, db, mem, rows, pending,
                    blob, published, relayed, subscribed, hist, lastUpdate,
                    poll, call, wsvars >>

\* pct = min(95.0, (current_ms / total_duration_ms) * 100)
ExportPct(current_ms) == Min(ExportClamp, (current_ms * 100) \div TotalDurationMs)

\* one stderr line with time=: publish pct, job.progress = pct, commit
FfmpegLine ==
    /\ AtOp("ffmpeg")
    /\ events < MaxProgressEvents
    /\ \E t \in {x \in TimeSteps : x >= lastReport}, oc \in UpdateOutcomes :
         LET job == [mem EXCEPT !.progress = ExportPct(t)] IN
         /\ publish_progress(ExportPct(t), oc # "publish_raises")
         /\ IF oc = "publish_raises"
               THEN /\ Raise("transient", ShortError, tmp)
                    /\ UNCHANGED << db, mem, rows, pending, hist >>
               ELSE /\ mem' = job
                    /\ IF oc = "commit_raises"
                          THEN /\ Raise("transient", ShortError, tmp)
                               /\ UNCHANGED << db, rows, pending, hist >>
                          ELSE /\ SessionCommit(job, pending)
                               /\ events' = events + 1
                               /\ lastReport' = t
                               /\ UNCHANGED << phase, idx, exc, tmp >>
    /\ UNCHANGED << inp, retries, attempts, jobLoaded, blob, subscribed,
                    lastUpdate, poll, call, wsvars >>

\* process.wait(); returncode != 0 raises RuntimeError with stderr text
FfmpegExit ==
    /\ AtOp("ffmpeg")
    /\ \/ Advance(tmp)
       \/ \E len \in {ShortError, LongError} : Raise("transient", len, tmp)
    /\ UNCHANGED << inp, retries, attempts, jobLoaded, db, mem, rows, pending,
                    blob, published, relayed, subscribed, hist, lastUpdate,
                    poll, call, wsvars >>

\* download_video._on_progress: min(70.0, pct * 0.7)
DownloadPct(pct) == Min(CallbackClamp, (pct * 7) \div 10)

\* generate_ai_video._on_progress: min(70.0, 10.0 + (pct / 100.0) * 60.0)
PollPct(pct) == Min(CallbackClamp, 10 + (pct * 60) \div 100)

\* the progress callback of dl_service.download_video / piapi poll_task
ProgressCallback ==
    /\ AtOp("download") \/ AtOp("poll")
    /\ events < MaxProgressEvents
    /\ \E pct \in {x \in PctSteps : x >= lastReport}, ok \in BOOLEAN :
         /\ publish_progress(IF Cur.op = "download" THEN DownloadPct(pct)
                                                    ELSE PollPct(pct), ok)
         /\ IF ok THEN /\ events' = events + 1
                       /\ lastReport' = pct
                       /\ UNCHANGED << phase, idx, exc, tmp >>
                  ELSE Raise("transient", ShortError, tmp)
    /\ UNCHANGED << inp, retries, attempts, jobLoaded, db, mem, rows, pending,
                    blob, subscribed, hist, lastUpdate,
                    poll, call, wsvars >>

\* dl_service.download_video returns the local file path, or raises
DownloadReturn ==
    /\ AtOp("download")
    /\ \/ Advance(tmp \cup {Cur.a})
       \/ Raise("transient", ShortError, tmp)
    /\ UNCHANGED << inp, retries, attempts, jobLoaded, db, mem, rows, pending,
                    blob, published, relayed, subscribed, hist, lastUpdate,
                    poll, call, wsvars >>

\* piapi_service.poll_task returns the task data, or raises PiAPIError
\* (remote status failed, or the poll deadline passed)
PollReturn ==
    /\ AtOp("poll")
    /\ \/ Advance(tmp)
       \/ Raise("transient", ShortError, tmp)
       \/ Raise("timeout", ShortError, tmp)
    /\ UNCHANGED << inp, retries, attempts, jobLoaded, db, mem, rows, pending,
                    blob, published, relayed, subscribed, hist, lastUpdate,
                    poll, call, wsvars >>

\* _publish_progress(job_id, <constant>, detail=...)
Publish ==
    /\ AtOp("publish")
    /\ \E ok \in BOOLEAN :
         /\ publish_progress(Cur.a, ok)
         /\ IF ok THEN Advance(tmp) ELSE Raise("transient", ShortError, tmp)
    /\ UNCHANGED << inp, retries, attempts, jobLoaded, db, mem, rows, pending,
                    blob, subscribed, hist, lastUpdate,
                    poll, call, wsvars >>

\* a call of an external tool or service that returns or raises
Call ==
    /\ AtOp("call")
    /\ \/ Advance(tmp)
       \/ \E len \in {ShortError, LongError} : Raise("transient", len, tmp)
    /\ UNCHANGED << inp, retries, attempts, jobLoaded, db, mem, rows, pending,
                    blob, published, relayed, subscribed, hist, lastUpdate,
                    poll, call, wsvars >>

\* auto_edit_service.remove_silence / jump_cut: auto-editor, or the fallback
\* _remove_silence_ffmpeg, which makes a segment directory and removes it
\* only after the last subprocess call succeeded
Silence ==
    /\ AtOp("silence")
    /\ \/ Advance(tmp)
       \/ Raise("transient", ShortError, tmp)
       \/ Raise("transient", ShortError, tmp \cup {Cur.a})
    /\ UNCHANGED << inp, retries, attempts, jobLoaded, db, mem, rows, pending,
                    blob, published, relayed, subscribed, hist, lastUpdate,
                    poll, call, wsvars >>

\* variant: an error of put_object is dropped
Upload_ignores_error ==
    /\ AtOp("upload")
    /\ \E ok \in BOOLEAN :
         /\ blob' = IF ok THEN blob \cup {Cur.a} ELSE blob
         /\ Advance(tmp)
    /\ UNCHANGED << inp, retries, attempts, jobLoaded, db, mem, rows, pending,
                    published, relayed, subscribed, hist, lastUpdate,
                    poll, call, wsvars >>

\* upload_file(bucket, object_name, data): put_object stores it, or raises
Upload ==
    /\ AtOp("upload")
    /\ \E ok \in BOOLEAN :
         IF ok THEN blob' = blob \cup {Cur.a} /\ Advance(tmp)
               ELSE blob' = blob /\ Raise("transient", ShortError, tmp)
    /\ UNCHANGED << inp, retries, attempts, jobLoaded, db, mem, rows, pending,
                    published, relayed, subscribed, hist, lastUpdate,
                    poll, call, wsvars >>

\* session.add(asset); session.flush()
AddAsset ==
    /\ AtOp("add_asset")
    /\ \/ pending' = pending + 1 /\ Advance(tmp)
       \/ pending' = pending /\ Raise("transient", ShortError, tmp)
    /\ UNCHANGED << inp, retries, attempts, jobLoaded, db, mem, rows, blob,
                    published, relayed, subscribed, hist, lastUpdate,
                    poll, call, wsvars >>

\* session.commit() of the added records
Commit ==
    /\ AtOp("commit")
    /\ \/ SessionCommit(mem, pending) /\ Advance(tmp)
       \/ UNCHANGED << db, rows, pending, hist >>
          /\ Raise("transient", ShortError, tmp)
    /\ UNCHANGED << inp, retries, attempts, jobLoaded, mem, blob, published,
                    relayed, subscribed, lastUpdate, poll, call, wsvars >>

\* _update_job_status(session, job, COMPLETED, progress=100.0, result={...})
Complete ==
    /\ AtOp("complete")
    /\ \E oc \in UpdateOutcomes :
         /\ update_job_status(mem, pending, COMPLETED, Cur.a, "set", NoError, oc)
         /\ IF oc = "ok" THEN Advance(tmp)
                         ELSE Raise("transient", ShortError, tmp)
    /\ UNCHANGED << inp, retries, attempts, jobLoaded, blob, subscribed, poll, call, wsvars >>

\* process_asset_metadata.delay(asset.id): sends a message to the broker
Delay ==
    /\ AtOp("delay")
    /\ \/ Advance(tmp)
       \/ Raise("transient", ShortError, tmp)
    /\ UNCHANGED << inp, retries, attempts, jobLoaded, db, mem, rows, pending,
                    blob, published, relayed, subscribed, hist, lastUpdate,
                    poll, call, wsvars >>

\* return {...}: the inner `finally`, then session.close()
Return ==
    /\ AtOp("return")
    /\ phase' = "done"
    /\ tmp' = IF Cur.try THEN tmp \ Finally(inp.kind) ELSE tmp
    /\ UNCHANGED << inp, idx, retries, attempts, jobLoaded, db, mem, rows,
                    pending, blob, published, relayed, subscribed, exc, events,
                    lastReport, hist, lastUpdate, poll, call, wsvars >>

\* variant: the text is stored whole
ErrorText_untruncated(len) == len

\* str(exc)[:2000]
ErrorText(len) == Min(len, ErrorLimit)

\* self.retry(exc=exc, countdown=...): re-queue while retries are left,
\* otherwise re-raise exc and end the task
ShouldRetry == retries < MaxRetries(inp.kind)

\* except Exception as exc: session.rollback() (the job object and the
\* flushed rows go back to the committed state), mark FAILED when job is
\* set (an exception of that update is logged and dropped), then
\* raise self.retry(exc=exc, countdown=60)
OnException ==
    /\ phase = "except"
    /\ IF jobLoaded
          THEN \E oc \in UpdateOutcomes :
                 update_job_status(db, 0, FAILED, NoProgress, "none",
                                   ErrorText(exc.len), oc)
          ELSE /\ mem' = db
               /\ pending' = 0
               /\ UNCHANGED << db, rows, hist, lastUpdate, published, relayed >>
    /\ IF ShouldRetry
          THEN phase' = "retry" /\ retries' = retries + 1
          ELSE phase' = "done" /\ retries' = retries
    /\ UNCHANGED << inp, idx, attempts, jobLoaded, blob, tmp, subscribed, exc,
                    events, lastReport, poll, call, wsvars >>

\* the countdown passed: Celery executes the task again with the same job id
RetryExecute ==
    /\ phase = "retry"
    /\ BeginExecution
    /\ UNCHANGED << inp, retries, db, rows, blob, tmp, published, relayed,
                    subscribed, hist, lastUpdate,
                    poll, call, wsvars >>

\* subscribe_job_status(): the listener's PubSub subscribes to the channel
Subscribe ==
    /\ subscribed = {}
    /\ subscribed' = {JOB_STATUS_CHANNEL}
    /\ UNCHANGED << inp, phase, idx, retries, attempts, jobLoaded, db, mem,
                    rows, pending, blob, tmp, published, relayed, exc, events,
                    lastReport, hist, lastUpdate, poll, call, wsvars >>

(***************************************************************************)
(* Specification of the job execution                                      *)
(***************************************************************************)
NewJob == [status |-> PENDING, progress |-> 0, result |-> "none",
           error |-> NoError]

PollIdle == [pc |-> "idle", now |-> 0, polls |-> 0, status |-> ""]

\* no service function is being called
NoCall == [fn |-> "none"]

Inputs ==
    {i \in [kind : Kinds, jobExists : BOOLEAN,
            badInput : {"none", "field", "ref", "op"}, hasSubs : BOOLEAN] :
        /\ i.badInput \in {"none"} \cup ChecksOf(i.kind)
        /\ i.hasSubs => i.kind = "export_video"
        /\ ~i.jobExists => i.badInput = "none" /\ ~i.hasSubs}

Init ==
    /\ inp \in Inputs
    /\ phase = "queued"
    /\ idx = 0
    /\ retries = 0
    /\ attempts = 0
    /\ jobLoaded = FALSE
    /\ db = NewJob
    /\ mem = NewJob
    /\ rows = 0
    /\ pending = 0
    /\ blob = {}
    /\ tmp = {}
    /\ published = NoMsg
    /\ relayed = NoMsg
    /\ subscribed = {}
    /\ exc = NoExc
    /\ events = 0
    /\ lastReport = 0
    /\ hist = {}
    /\ lastUpdate = "none"
    /\ poll = PollIdle
    /\ call = NoCall
    /\ RoomsIdle

Next ==
    \/ WorkerStart
    \/ Load
    \/ Start
    \/ Validate
    \/ MkTemp
    \/ Fetch
    \/ BuildCmd
    \/ FfmpegLine
    \/ FfmpegExit
    \/ ProgressCallback
    \/ DownloadReturn
    \/ PollReturn
    \/ Publish
    \/ Call
    \/ Silence
    \/ Upload
    \/ AddAsset
    \/ Commit
    \/ Complete
    \/ Delay
    \/ Return
    \/ OnException
    \/ RetryExecute
    \/ Subscribe

Spec == Init /\ [][Next]_vars

TypeOK ==
    /\ phase \in {"queued", "run", "except", "retry", "done"}
    /\ db.status \in {PENDING, PROCESSING, COMPLETED, FAILED}
    /\ db.progress \in 0..100
    /\ attempts \in 0..3

(***************************************************************************)
(* piapi.poll_task(task_id, timeout=600, interval=10), step by step.       *)
(* poll.now is time.time() - start in seconds.  Every GET returns a        *)
(* task status within the HTTP client's timeout.                           *)
(***************************************************************************)
\* timeout=600 and interval=10 passed by generate_ai_video
PollTimeout == 600
PollInterval == 10
\* httpx.Client(timeout=30)
HttpTimeout == 30
\* the clock of the model stops here
PollClockCap == 1000

\* data.get("status", "") of one response
RemoteStatuses == {"", "pending", "processing", "completed", "success", "failed"}

\* seconds one GET can take
RequestTimes == {0, HttpTimeout}

\* variant: no deadline
PollTimedOut_never(elapsed) == FALSE

\* if elapsed > timeout: raise PiAPIError(... timed out ...)
PollTimedOut(elapsed) == elapsed > PollTimeout

\* start = time.time(); headers = _get_headers()
PollBegin ==
    /\ poll.pc = "idle"
    /\ poll' = [poll EXCEPT !.pc = "check", !.now = 0]
    /\ UNCHANGED << jobvars, call, wsvars >>

\* top of the loop: elapsed = time.time() - start; the deadline check
PollCheck ==
    /\ poll.pc = "check"
    /\ poll' = [poll EXCEPT !.pc = IF PollTimedOut(poll.now) THEN "timeout"
                                                              ELSE "request"]
    /\ UNCHANGED << jobvars, call, wsvars >>

\* client.get(.../task/{task_id}); return on completed/success, raise on failed
PollRequest ==
    /\ poll.pc = "request"
    /\ \E d \in RequestTimes, st \in RemoteStatuses :
         poll' = [pc |-> IF st \in {"completed", "success"} THEN "returned"
                         ELSE IF st = "failed" THEN "failed" ELSE "sleep",
                  now |-> poll.now + d,
                  polls |-> poll.polls + 1,
                  status |-> st]
    /\ UNCHANGED << jobvars, call, wsvars >>

\* time.sleep(interval)
PollSleep ==
    /\ poll.pc = "sleep"
    /\ poll.now <= PollClockCap
    /\ poll' = [poll EXCEPT !.pc = "check", !.now = poll.now + PollInterval]
    /\ UNCHANGED << jobvars, call, wsvars >>

InitPoll ==
    /\ inp = [kind |-> "generate_ai_video", jobExists |-> TRUE,
              badInput |-> "none", hasSubs |-> FALSE]
    /\ phase = "run"
    /\ idx = 7
    /\ retries = 0
    /\ attempts = 1
    /\ jobLoaded = TRUE
    /\ db = [NewJob EXCEPT !.status = PROCESSING]
    /\ mem = [NewJob EXCEPT !.status = PROCESSING]
    /\ rows = 0
    /\ pending = 0
    /\ blob = {}
    /\ tmp = {}
    /\ published = Msg(PROCESSING, 10)
    /\ relayed = NoMsg
    /\ subscribed = {}
    /\ exc = NoExc
    /\ events = 0
    /\ lastReport = 0
    /\ hist = {PROCESSING}
    /\ lastUpdate = "ok"
    /\ poll = PollIdle
    /\ call = NoCall
    /\ RoomsIdle

NextPoll ==
    \/ PollBegin
    \/ PollCheck
    \/ PollRequest
    \/ PollSleep

SpecPoll == InitPoll /\ [][NextPoll]_vars

\* the worker thread keeps running: sleep returns and each GET returns
SpecPollFair == SpecPoll /\ WF_vars(NextPoll)

(***************************************************************************)
(* Properties of the job execution model                                   *)
(***************************************************************************)
Terminal == {COMPLETED, FAILED}

\* the except handler of the current execution has run for a loaded job
HandlerRan == phase \in {"retry", "done"} /\ exc.kind # "none" /\ jobLoaded

\* C1: once the committed status of a job is completed or failed, no step
\* changes it to another value
C1_TerminalStatusIsFinal ==
    [][db.status \in Terminal => db'.status = db.status]_vars

\* C2: the progress values published for the job never decrease from one
\* published message to the next, over all executions of the job
C2_PublishedProgressNonDecreasing ==
    [][published'.progress >= published.progress]_vars

\* C3: a message with progress 100 is published only after a commit of
\* status completed for the job
C3_HundredOnlyAfterCompleted ==
    published.progress = 100 => COMPLETED \in hist

C3_Witness ==
    /\ published = Msg(COMPLETED, 100)
    /\ db.status = COMPLETED
    /\ attempts = 1

\* C4: a job that is completed and whose result names an output artifact
\* has that artifact in the blob store
C4_CompletedHasArtifact ==
    (db.status = COMPLETED /\ HasArtifact(inp.kind) /\ db.result = "set")
        => "artifact" \in blob

C4_Witness ==
    /\ inp.kind = "auto_edit_video"
    /\ db.status = COMPLETED
    /\ db.result = "set"
    /\ "artifact" \in blob
    /\ phase = "done"

\* C5: an execution that failed with a validation error or a poll timeout
\* is not scheduled for a retry
C5_NonRetryableNotRetried ==
    phase = "retry" => exc.kind \notin {"validation", "timeout"}

C7_EndsInOneTerminalState ==
    /\ attempts <= MaxRetries(inp.kind) + 1
    /\ (phase = "done" /\ inp.jobExists) => db.status \in Terminal
    /\ ~(FAILED \in hist /\ db.status = COMPLETED)

\* C8: when an execution has ended, by return or by exception, no temporary
\* file of the execution exists
C8_NoTempFilesAfterExit ==
    phase \in {"retry", "done"} => tmp = {}

\* C10: the channel of every message a worker publishes is a channel the
\* listener of subscribe_job_status is subscribed to
C10_PublishedOnSubscribedChannel ==
    (published # NoMsg /\ subscribed # {}) => published.chan \in subscribed

(***************************************************************************)
(* Properties of poll_task                                                 *)
(***************************************************************************)
PollEnded == poll.pc \in {"returned", "failed", "timeout"}

\* C9: poll_task ends, by returning on status completed/success, by the
\* failure error on status failed or by the timeout error, and no GET is
\* started once the elapsed time is beyond the timeout
C9_PollNeverHangs ==
    /\ [](poll.pc = "request" => poll.now <= PollTimeout)
    /\ [](poll.pc = "returned" => poll.status \in {"completed", "success"})
    /\ [](poll.pc = "failed" => poll.status = "failed")
    /\ [](poll.pc = "timeout" => poll.now > PollTimeout)
    /\ <>PollEnded

C9_Witness ==
    /\ poll.pc = "timeout"
    /\ poll.polls > 1
    /\ poll.status \notin {"completed", "success", "failed"}

(***************************************************************************)
(* Service functions (backend/app/services).  A call of one function is    *)
(* held in `call`; no job is executing while it runs.                      *)
(***************************************************************************)
ServiceIdle ==
    /\ inp = [kind |-> "export_video", jobExists |-> TRUE,
              badInput |-> "none", hasSubs |-> FALSE]
    /\ phase = "queued"
    /\ idx = 0
    /\ retries = 0
    /\ attempts = 0
    /\ jobLoaded = FALSE
    /\ db = NewJob
    /\ mem = NewJob
    /\ rows = 0
    /\ pending = 0
    /\ blob = {}
    /\ tmp = {}
    /\ published = NoMsg
    /\ relayed = NoMsg
    /\ subscribed = {}
    /\ exc = NoExc
    /\ events = 0
    /\ lastReport = 0
    /\ hist = {}
    /\ lastUpdate = "none"
    /\ poll = PollIdle
    /\ RoomsIdle

Abs(x) == IF x < 0 THEN -x ELSE x

RECURSIVE Gcd(_, _)
Gcd(a, b) == IF b = 0 THEN a ELSE Gcd(b, a % b)

(***************************************************************************)
(* ffmpeg._build_atempo_chain(speed).  A speed is a whole number of        *)
(* 1/SpeedScale; `remaining` is the exact fraction num / den of such       *)
(* units; an atempo primitive is its factor in 1/FactorScale, the four     *)
(* decimals that "atempo={remaining:.4f}" prints.  The chain is recorded   *)
(* up to MaxChain primitives, and a negative `remaining` is followed down  *)
(* to -RemainingFloor: from there on to -inf, which /= 0.5 leaves as it    *)
(* is, every value compares like it.                                       *)
(***************************************************************************)
SpeedScale == 100000
FactorScale == 10000

\* the factors of "atempo=0.5" and "atempo=100.0"
AtempoMin == 5000
AtempoMax == 1000000

\* the speeds 0.125, 0.25, ... of the grid
MaxSpeedGrid == 40
SpeedStep == 12500

\* speeds next to the thresholds 0.5, 1 +- 0.01, 100 and their multiples
SpeedEdges == {100, 24750, 24751, 25000, 37500, 49500, 49999, 50000, 75000,
               98999, 99000, 99005, 99010, 99500, 100000, 100500, 100999,
               101000, 101001, 9999999, 10000000, 10000001, 10050000,
               10100000, 10100001, 15000000, 25000000}

Speeds == SpeedEdges \cup {k * SpeedStep : k \in 1..MaxSpeedGrid}

\* the speeds 0, -0.00001, -0.5 and -1.0: clip_filters.get("speed", 1.0) is
\* not validated
NonPositiveSpeeds == {0, -1, -50000, -100000}

\* most primitives of a chain that are recorded
MaxChain == 12

\* the magnitude down to which a negative `remaining` is followed
RemainingFloor == 800000

\* abs(x - 1.0) < 0.01 for x = r.num / r.den
Near1(r) == Abs(r.num - r.den * SpeedScale) < r.den * (SpeedScale \div 100)

\* abs(remaining - 1.0) > 0.01; the doubles 0.99 and 1.01 lie farther than
\* the double 0.01 from 1.0, so the comparison is true at both
NotIdentity(r) == ~Near1(r)

NeedsHalving_below_one(r) == r.num < r.den * SpeedScale

NeedsHalving_never(r) == FALSE

\* remaining < 0.5
NeedsHalving(r) == 2 * r.num < r.den * SpeedScale

\* remaining > 100.0
NeedsCentuple(r) == r.num > 100 * r.den * SpeedScale

\* f"{remaining:.4f}": the nearest multiple of 0.0001
Format4(r) == (2 * r.num + 10 * r.den) \div (20 * r.den)

AtempoCall(s) == [fn |-> "_build_atempo_chain", pc |-> "start", speed |-> s,
                  remaining |-> [num |-> s, den |-> 1], parts |-> << >>]

\* if abs(speed - 1.0) < 0.01: return []
AtempoStart ==
    /\ call.fn = "_build_atempo_chain"
    /\ call.pc = "start"
    /\ call' = [call EXCEPT !.pc = IF Near1([num |-> call.speed, den |-> 1])
                                   THEN "returned" ELSE "halve"]
    /\ UNCHANGED << jobvars, poll, wsvars >>

\* the test of `while remaining < 0.5`
AtempoHalve ==
    /\ call.fn = "_build_atempo_chain"
    /\ call.pc = "halve"
    /\ call' = [call EXCEPT !.pc = IF NeedsHalving(call.remaining)
                                   THEN "halving" ELSE "centuple"]
    /\ UNCHANGED << jobvars, poll, wsvars >>

\* the body of the loop: parts.append("atempo=0.5"); remaining /= 0.5
AtempoHalveBody ==
    /\ call.fn = "_build_atempo_chain"
    /\ call.pc = "halving"
    /\ call' = [call EXCEPT
                  !.pc = "halve",
                  !.parts = IF Len(@) < MaxChain
                            THEN Append(@, AtempoMin) ELSE @,
                  !.remaining.num = IF @ < -RemainingFloor
                                    THEN @ ELSE 2 * @]
    /\ UNCHANGED << jobvars, poll, wsvars >>

\* while remaining > 100.0: parts.append("atempo=100.0"); remaining /= 100.0
\* then the remainder, unless abs(remaining - 1.0) <= 0.01, and return
AtempoCentuple ==
    /\ call.fn = "_build_atempo_chain"
    /\ call.pc = "centuple"
    /\ call' = IF NeedsCentuple(call.remaining)
               THEN [call EXCEPT !.parts = Append(@, AtempoMax),
                                 !.remaining.den = 100 * @]
               ELSE [call EXCEPT !.pc = "returned",
                                 !.parts = IF NotIdentity(call.remaining)
                                           THEN Append(@, Format4(call.remaining))
                                           ELSE @]
    /\ UNCHANGED << jobvars, poll, wsvars >>

InitAtempo ==
    /\ ServiceIdle
    /\ \E s \in Speeds : call = AtempoCall(s)

NextAtempo ==
    \/ AtempoStart
    \/ AtempoHalve
    \/ AtempoHalveBody
    \/ AtempoCentuple

SpecAtempo == InitAtempo /\ [][NextAtempo]_vars

\* the call with any speed that filters.speed can hold, run to its end: the
\* body is sequential code, so a step that can be taken is taken
InitAtempoAny ==
    /\ ServiceIdle
    /\ \E s \in Speeds \cup NonPositiveSpeeds : call = AtempoCall(s)

SpecAtempoAnyFair ==
    InitAtempoAny /\ [][NextAtempo]_vars /\ WF_vars(NextAtempo)

\* a primitive as the fraction num / den of its factor
FactorOf(f) == [num |-> f \div Gcd(f, FactorScale),
                den |-> FactorScale \div Gcd(f, FactorScale)]

\* the product of the factors of a chain; the empty chain counts as 1
RECURSIVE ChainProduct(_)
ChainProduct(parts) ==
    IF parts = << >> THEN [num |-> 1, den |-> 1]
    ELSE LET p == ChainProduct(Tail(parts))
             f == FactorOf(Head(parts))
             g == Gcd(f.num * p.num, f.den * p.den)
         IN [num |-> (f.num * p.num) \div g, den |-> (f.den * p.den) \div g]

\* |p - s| <= s / 100 for the fraction p and the speed s
Within1Percent(p, s) ==
    LET g == Gcd(p.den, SpeedScale)
        l == p.num * (SpeedScale \div g)
        r == s * (p.den \div g)
    IN Abs(l - r) <= r \div 100

AtempoReturned == call.fn = "_build_atempo_chain" /\ call.pc = "returned"

\* C11: the product of the atempo factors of the returned chain (1 for the
\* empty chain) is within 1% of the speed, for every speed s > 0.
C11_ProductWithinOnePercent ==
    AtempoReturned => Within1Percent(ChainProduct(call.parts), call.speed)

\* C12 as stated: for a speed in [0.5, 100.0] the returned chain has exactly
\* one primitive.
C12_OnePrimitiveInRange ==
    AtempoReturned /\ call.speed * 2 >= SpeedScale
                   /\ call.speed <= 100 * SpeedScale
        => Len(call.parts) = 1

\* C12 amended: for a speed in [0.5, 100.0] the returned chain has exactly
\* one primitive when abs(speed - 1.0) >= 0.01 and is empty otherwise.
C12_OnePrimitiveUnlessIdentity ==
    AtempoReturned /\ call.speed * 2 >= SpeedScale
                   /\ call.speed <= 100 * SpeedScale
        => Len(call.parts) =
             IF Near1([num |-> call.speed, den |-> 1]) THEN 0 ELSE 1

C12_Witness ==
    /\ AtempoReturned
    /\ call.speed = 75000
    /\ call.parts = << 7500 >>

\* C20: every primitive of the chain carries a factor in [0.5, 100.0].
C20_FactorsInRange ==
    call.fn = "_build_atempo_chain" =>
        \A i \in 1..Len(call.parts) :
            call.parts[i] >= AtempoMin /\ call.parts[i] <= AtempoMax

C20_Witness ==
    /\ AtempoReturned
    /\ call.speed = 100
    /\ Len(call.parts) = 10
    /\ call.parts[10] = 5120

(***************************************************************************)
(* ffmpeg.build_effect_filters(filters).  An effect value is a whole       *)
(* number of 1/ValueScale; a primitive is [f, a]: the filter name and the  *)
(* numbers its string prints.                                              *)
(***************************************************************************)
ValueScale == 100

\* longest effect list that is tried
MaxEffects == 2

None == [f |-> "None", a |-> << >>]

Prim(f, a) == [f |-> f, a |-> a]

\* round(x / d) for x >= 0: the nearest integer, a tie going to the even one
RoundHalfEven(x, d) ==
    LET q == x \div d
        r == x % d
    IN IF 2 * r < d THEN q
       ELSE IF 2 * r > d THEN q + 1
       ELSE IF q % 2 = 0 THEN q ELSE q + 1

\* f"{x:.3f}" for x = n / (1000 * ValueScale), in thousandths
Format3(n) == (2 * n + ValueScale) \div (2 * ValueScale)

Max(a, b) == IF a >= b THEN a ELSE b

\* abs(v - 1) > 0.01; the doubles 0.99 and 1.01 are farther than the double
\* 0.01 from 1, so the comparison is true at both
Changes(v) == Abs(v - ValueScale) * 100 >= ValueScale

KnownEffects == {"blur", "brightness", "contrast", "saturation", "grayscale",
                 "sepia", "hueRotate", "invert"}

\* _EFFECT_BUILDERS.get(effect_id) applied to the value; None for an id that
\* has no builder
Builder(id, v) ==
    CASE id = "blur" ->
           IF v > 0
           THEN Prim("boxblur", << Max(1, RoundHalfEven(v, ValueScale)),
                                   Max(1, RoundHalfEven(v, ValueScale)) >>)
           ELSE None
      [] id = "brightness" ->
           IF Changes(v) THEN Prim("eq=brightness", << v - ValueScale >>)
           ELSE None
      [] id = "contrast" ->
           IF Changes(v) THEN Prim("eq=contrast", << v >>) ELSE None
      [] id = "saturation" ->
           IF Changes(v) THEN Prim("eq=saturation", << v >>) ELSE None
      [] id = "grayscale" ->
           IF 100 * v >= 95 * ValueScale THEN Prim("hue=s=0", << >>)
           ELSE IF v > 0 THEN Prim("eq=saturation", << ValueScale - v >>)
           ELSE None
      [] id = "sepia" ->
           IF v > 0
           THEN Prim("colorchannelmixer",
                     << Format3(393 * v + 1000 * (ValueScale - v)),
                        Format3(769 * v), Format3(189 * v),
                        Format3(349 * v),
                        Format3(686 * v + 1000 * (ValueScale - v)),
                        Format3(168 * v),
                        Format3(272 * v), Format3(534 * v),
                        Format3(131 * v + 1000 * (ValueScale - v)) >>)
           ELSE None
      [] id = "hueRotate" ->
           IF v > 0 THEN Prim("hue=h", << v >>) ELSE None
      [] id = "invert" ->
           IF 2 * v >= ValueScale THEN Prim("negate", << >>) ELSE None
      [] OTHER -> None

EffectEnabled_always(e) == TRUE

\* effect.get("enabled", True)
EffectEnabled(e) == e.enabled # "False"

\* effect values 0, 0.4, 1.0 and 3.0
EffectValues == {0, 40, 100, 300}

\* the effects that are tried: every id, one of them unknown, with every
\* value; a disabled entry of every id, and one without the key "enabled"
EffectSamples ==
    {[id |-> i, value |-> v, enabled |-> "True"] :
        i \in KnownEffects \cup {"glow"}, v \in EffectValues}
    \cup {[id |-> i, value |-> 300, enabled |-> "False"] :
            i \in KnownEffects \cup {"glow"}}
    \cup {[id |-> "blur", value |-> 300, enabled |-> "absent"]}

EffectLists ==
    UNION {[1..n -> EffectSamples] : n \in 0..MaxEffects}

\* the argument: None, {}, a dict without "effects", or with an effect list
FilterInputs ==
    {[tag |-> "None", effects |-> << >>],
     [tag |-> "empty", effects |-> << >>],
     [tag |-> "speed_only", effects |-> << >>]}
    \cup {[tag |-> "effects", effects |-> l] : l \in EffectLists}

EffectsCall(filters) ==
    [fn |-> "build_effect_filters", pc |-> "start", filters |-> filters,
     i |-> 1, parts |-> << >>]

\* if not filters: return []
EffectsStart ==
    /\ call.fn = "build_effect_filters"
    /\ call.pc = "start"
    /\ call' = [call EXCEPT !.pc = IF call.filters.tag \in {"None", "empty"}
                                   THEN "returned" ELSE "loop"]
    /\ UNCHANGED << jobvars, poll, wsvars >>

\* one pass of `for effect in filters.get("effects", [])`
EffectsIterate ==
    /\ call.fn = "build_effect_filters"
    /\ call.pc = "loop"
    /\ call.i <= Len(call.filters.effects)
    /\ LET effect == call.filters.effects[call.i]
           result == Builder(effect.id, effect.value)
       IN call' = [call EXCEPT
                     !.i = @ + 1,
                     !.parts = IF EffectEnabled(effect) /\ result # None
                               THEN Append(@, result) ELSE @]
    /\ UNCHANGED << jobvars, poll, wsvars >>

\* return parts
EffectsReturn ==
    /\ call.fn = "build_effect_filters"
    /\ call.pc = "loop"
    /\ call.i > Len(call.filters.effects)
    /\ call' = [call EXCEPT !.pc = "returned"]
    /\ UNCHANGED << jobvars, poll, wsvars >>

InitEffects ==
    /\ ServiceIdle
    /\ \E f \in FilterInputs : call = EffectsCall(f)

NextEffects ==
    \/ EffectsStart
    \/ EffectsIterate
    \/ EffectsReturn

SpecEffects == InitEffects /\ [][NextEffects]_vars

\* an effect that is enabled, has a known id and a value that is no no-op
Contributes(e) ==
    /\ e.enabled # "False"
    /\ e.id \in KnownEffects
    /\ Builder(e.id, e.value) # None

\* the positions of the contributing effects among the first n
ContributingUpTo(effects, n) == {j \in 1..n : Contributes(effects[j])}

\* C13: the returned list holds, in the order of the effect list, exactly
\* the primitives of the effects that are enabled, have a known id and a
\* value that is no no-op; None and {} give the empty list.
C13_ExactlyContributingInOrder ==
    call.fn = "build_effect_filters" /\ call.pc = "returned" =>
        LET effects == call.filters.effects
            kept == ContributingUpTo(effects, Len(effects))
        IN /\ Len(call.parts) = Cardinality(kept)
           /\ \A j \in kept :
                call.parts[Cardinality(ContributingUpTo(effects, j))]
                    = Builder(effects[j].id, effects[j].value)
           /\ call.filters.tag \in {"None", "empty"} => call.parts = << >>

C13_Witness ==
    /\ call.fn = "build_effect_filters"
    /\ call.pc = "returned"
    /\ Len(call.filters.effects) = 2
    /\ call.filters.effects[1].enabled = "False"
    /\ call.filters.effects[2] = [id |-> "brightness", value |-> 300,
                                  enabled |-> "True"]
    /\ call.parts = << Prim("eq=brightness", << 200 >>) >>

(***************************************************************************)
(* ffmpeg.build_export_command(project_data, output_path).  The command is *)
(* a sequence of argument strings; a stage of the filter graph is          *)
(* [ins, chain, out]: the labels it consumes, its filters and the label it *)
(* produces.  Clips carry a source and scale_x (in units of 1/ValueScale,   *)
(* read for sticker clips only) and the default speed, fades and scale_y.  *)
(***************************************************************************)
\* most tracks of a timeline that is tried
MaxTracks == 2

TrackTypes == {"video", "audio", "sticker", "text"}

Clip(source, scale_x) == [source |-> source, scale_x |-> scale_x]

\* the clip lists of a track
ClipLists ==
    {<< >>, << Clip("a.mp4", 100) >>, << Clip("b.png", 100) >>,
     << Clip("b.png", 150) >>, << Clip("a.mp4", 100), Clip("b.png", 150) >>}

Tracks == [type : TrackTypes, clips : ClipLists]

Timelines == UNION {[1..n -> Tracks] : n \in 0..MaxTracks}

\* project_data: the tracks and whether subtitle_segments is non-empty
Projects == [tracks : Timelines, subs : BOOLEAN]

OutputPath == "out.mp4"

BaseFlags == << "ffmpeg", "-y" >>

\* the encoding settings with the defaults of `output`, then the output path
EncodingArgs ==
    << "-c:v", "libx264", "-preset", "medium", "-crf", "23", "-c:a", "aac",
       "-b:a", "192k", "-r", "30", "-movflags", "+faststart", OutputPath >>

Stage(ins, chain, out) == [ins |-> ins, chain |-> chain, out |-> out]

\* f"{input_index}:v" and f"{input_index}:a"
VideoOf(i) == ToString(i) \o ":v"
AudioOf(i) == ToString(i) \o ":a"

\* one pass of `for clip in track.get("clips", [])` of the first loop
AddClip(b, type, source) ==
    LET i == b.input_index
        v == "v" \o ToString(i)
        a == "a" \o ToString(i)
        vstage == Stage(<< VideoOf(i) >>,
                        << "trim", "setpts", "scale", "pad" >>, v)
        astage == Stage(<< AudioOf(i) >>, << "atrim", "asetpts" >>, a)
        withInput == [b EXCEPT !.cmd = @ \o << "-i", source >>,
                               !.input_index = @ + 1]
    IN IF type = "video"
       THEN [withInput EXCEPT
               !.filter_parts = @ \o << vstage, astage >>,
               !.video_overlays = Append(@, v),
               !.audio_parts = Append(@, a)]
       ELSE IF type = "audio"
       THEN [withInput EXCEPT
               !.filter_parts = Append(@, astage),
               !.audio_parts = Append(@, a)]
       ELSE withInput

RECURSIVE AddClips(_, _, _)
AddClips(b, type, clips) ==
    IF clips = << >> THEN b
    ELSE AddClips(AddClip(b, type, Head(clips).source), type, Tail(clips))

ExportCall(project) ==
    [fn |-> "build_export_command", pc |-> "tracks", project |-> project,
     t |-> 1, k |-> 1,
     cmd |-> BaseFlags, input_index |-> 0, filter_parts |-> << >>,
     video_overlays |-> << >>, audio_parts |-> << >>,
     sticker_overlays |-> << >>, current_video_label |-> "outv",
     srt_path |-> FALSE]

\* one pass of the first `for track in tracks`
ExportTrack ==
    /\ call.fn = "build_export_command"
    /\ call.pc = "tracks"
    /\ call.t <= Len(call.project.tracks)
    /\ LET track == call.project.tracks[call.t]
       IN call' = [AddClips(call, track.type, track.clips) EXCEPT !.t = @ + 1]
    /\ UNCHANGED << jobvars, poll, wsvars >>

\* if video_overlays: the concat stage that produces [outv]
ExportConcatVideo ==
    /\ call.fn = "build_export_command"
    /\ call.pc = "tracks"
    /\ call.t > Len(call.project.tracks)
    /\ call' = [call EXCEPT
                  !.pc = "stickers",
                  !.t = 1,
                  !.filter_parts =
                      IF call.video_overlays # << >>
                      THEN Append(@, Stage(call.video_overlays,
                                           << "concat=v=1:a=0" >>, "outv"))
                      ELSE @]
    /\ UNCHANGED << jobvars, poll, wsvars >>

\* one pass of the second `for track in tracks`, which collects sticker clips
ExportStickerTrack ==
    /\ call.fn = "build_export_command"
    /\ call.pc = "stickers"
    /\ call.t <= Len(call.project.tracks)
    /\ LET track == call.project.tracks[call.t]
       IN call' = [call EXCEPT
                     !.t = @ + 1,
                     !.sticker_overlays =
                         IF track.type = "sticker" THEN @ \o track.clips
                         ELSE @]
    /\ UNCHANGED << jobvars, poll, wsvars >>

\* abs(scale_x - 1.0) > 0.01 or abs(scale_y - 1.0) > 0.01, scale_y being 1.0
Scaled(clip) == Abs(clip.scale_x - ValueScale) > ValueScale \div 100

\* one pass of `for idx, sticker_clip in enumerate(sticker_overlays)`: the
\* scale stage, if any, and the overlay stage
ExportOverlay ==
    /\ call.fn = "build_export_command"
    /\ call.pc = "stickers"
    /\ call.t > Len(call.project.tracks)
    /\ call.k <= Len(call.sticker_overlays)
    /\ LET sticker_clip == call.sticker_overlays[call.k]
           sticker_input == call.input_index
           next_label == "stk" \o ToString(call.k - 1)
           scaled_label == "stk_s" \o ToString(call.k - 1)
           scale_filter ==
               IF Scaled(sticker_clip)
               THEN << Stage(<< VideoOf(sticker_input) >>, << "scale" >>,
                             scaled_label) >>
               ELSE << >>
           sticker_ref == IF Scaled(sticker_clip) THEN scaled_label
                          ELSE VideoOf(sticker_input)
       IN call' = [call EXCEPT
                     !.k = @ + 1,
                     !.cmd = @ \o << "-i", sticker_clip.source >>,
                     !.filter_parts =
                         @ \o scale_filter
                           \o << Stage(<< call.current_video_label,
                                          sticker_ref >>,
                                       << "overlay" >>, next_label) >>,
                     !.current_video_label = next_label,
                     !.input_index = @ + 1]
    /\ UNCHANGED << jobvars, poll, wsvars >>

\* if subtitle_segments and video_overlays: the caption file and the
\* subtitles stage that produces [outsv]
ExportSubtitles ==
    /\ call.fn = "build_export_command"
    /\ call.pc = "stickers"
    /\ call.t > Len(call.project.tracks)
    /\ call.k > Len(call.sticker_overlays)
    /\ call' = IF call.project.subs /\ call.video_overlays # << >>
               THEN [call EXCEPT
                       !.pc = "audio",
                       !.srt_path = TRUE,
                       !.filter_parts =
                           Append(@, Stage(<< call.current_video_label >>,
                                           << "subtitles" >>, "outsv"))]
               ELSE [call EXCEPT !.pc = "audio"]
    /\ UNCHANGED << jobvars, poll, wsvars >>

\* if audio_parts: anull for one audio stream, concat for more
ExportAudio ==
    /\ call.fn = "build_export_command"
    /\ call.pc = "audio"
    /\ call' = [call EXCEPT
                  !.pc = "assemble",
                  !.filter_parts =
                      IF call.audio_parts = << >> THEN @
                      ELSE IF Len(call.audio_parts) = 1
                      THEN Append(@, Stage(call.audio_parts,
                                           << "anull" >>, "outa"))
                      ELSE Append(@, Stage(call.audio_parts,
                                           << "concat=v=0:a=1" >>, "outa"))]
    /\ UNCHANGED << jobvars, poll, wsvars >>

VideoLabel_unburned(c) == c.current_video_label

\* video_label = "[outsv]" if srt_path else f"[{current_video_label}]"
VideoLabel(c) == IF c.srt_path THEN "outsv" ELSE c.current_video_label

HasFilterGraph_always(filter_parts) == TRUE

\* if filter_parts:
HasFilterGraph(filter_parts) == filter_parts # << >>

\* -filter_complex, the -map options, the encoding settings; return cmd
ExportAssemble ==
    /\ call.fn = "build_export_command"
    /\ call.pc = "assemble"
    /\ LET graph == IF HasFilterGraph(call.filter_parts)
                    THEN << "-filter_complex", "filter_parts" >> ELSE << >>
           vmap == IF call.video_overlays # << >>
                   THEN << "-map", VideoLabel(call) >>
                   ELSE << >>
           amap == IF call.audio_parts # << >>
                   THEN << "-map", "outa" >> ELSE << >>
       IN call' = [call EXCEPT
                     !.pc = "returned",
                     !.cmd = @ \o graph \o vmap \o amap \o EncodingArgs]
    /\ UNCHANGED << jobvars, poll, wsvars >>

InitExport ==
    /\ ServiceIdle
    /\ \E p \in Projects : call = ExportCall(p)

NextExport ==
    \/ ExportTrack
    \/ ExportConcatVideo
    \/ ExportStickerTrack
    \/ ExportOverlay
    \/ ExportSubtitles
    \/ ExportAudio
    \/ ExportAssemble

SpecExport == InitExport /\ [][NextExport]_vars

\* no track of the timeline has a clip
NoClips(tracks) == \A i \in 1..Len(tracks) : tracks[i].clips = << >>

\* what the command and the filter graph are built from
Built(c) == << c.cmd, c.input_index, c.filter_parts, c.video_overlays,
               c.audio_parts, c.sticker_overlays, c.current_video_label,
               c.srt_path >>

\* the step visits, in either loop over the tracks, a track without clips
VisitsEmptyTrack ==
    /\ call.fn = "build_export_command"
    /\ call.pc \in {"tracks", "stickers"}
    /\ call.t <= Len(call.project.tracks)
    /\ call.project.tracks[call.t].clips = << >>

\* C14: for a timeline without tracks or without clips the command is the
\* base flags, then the encoding settings, then the output path, with no
\* -i, no -filter_complex and no -map; and visiting a track without clips
\* changes nothing of what the command is built from, in any timeline.
C14_EmptyTimelineAndEmptyTrack ==
    /\ [](call.fn = "build_export_command" /\ call.pc = "returned"
          /\ NoClips(call.project.tracks)
            => /\ call.cmd = BaseFlags \o EncodingArgs
               /\ \A i \in 1..Len(call.cmd) :
                    call.cmd[i] \notin {"-i", "-filter_complex", "-map"}
               /\ call.cmd[Len(call.cmd)] = OutputPath)
    /\ [][VisitsEmptyTrack => Built(call') = Built(call)]_vars

C14_Witness ==
    /\ call.fn = "build_export_command"
    /\ call.pc = "returned"
    /\ call.project.subs
    /\ call.project.tracks = << [type |-> "video", clips |-> << >>],
                                [type |-> "sticker", clips |-> << >>] >>
    /\ call.cmd = BaseFlags \o EncodingArgs

(***************************************************************************)
(* auto_edit._remove_silence_ffmpeg: the keep-intervals (speech_segments)  *)
(* built from the detected silence.  Times are whole numbers of            *)
(* 1/TimeScale second.                                                     *)
(***************************************************************************)
TimeScale == 100

\* speech_end > speech_start + 0.1
MinKeep == 10

\* remove_silence: min_silence 0.5, padding 0.2
RemoveSilenceMin == 50
RemoveSilencePadding == 20

\* jump_cut: min_silence 0.3, padding 0.05
JumpCutMin == 30
JumpCutPadding == 5

SilenceCallers ==
    {[name |-> "remove_silence", min_silence |-> RemoveSilenceMin,
      padding |-> RemoveSilencePadding],
     [name |-> "jump_cut", min_silence |-> JumpCutMin,
      padding |-> JumpCutPadding]}

\* most silence intervals that silencedetect reports
MaxSilences == 2

\* durations of the source: 0.6 s and 10 s
SourceDurations == {60, 1000}

\* the instants at which a silence may start or end
SilencePoints == {0, 5, 60, 200, 250, 300, 330, 340, 960, 999, 1000}

\* what detect_silence_segments returns for a source of the given duration:
\* intervals of at least min_duration, in order, with sound between them
SilenceLists(duration, min_duration) ==
    LET segs == {s \in [start : SilencePoints, end : SilencePoints] :
                    /\ s.end <= duration
                    /\ s.end - s.start >= min_duration}
    IN UNION {{l \in [1..n -> segs] :
                  \A i \in 1..(n - 1) : l[i].end < l[i + 1].start} :
              n \in 0..MaxSilences}

SilenceCall(caller, duration, silence) ==
    [fn |-> "_remove_silence_ffmpeg", pc |-> "start", caller |-> caller.name,
     padding |-> caller.padding, duration |-> duration,
     silence_segments |-> silence, i |-> 1, prev_end |-> 0,
     speech_segments |-> << >>]

\* if not silence_segments: copy the file and return
SilenceStart ==
    /\ call.fn = "_remove_silence_ffmpeg"
    /\ call.pc = "start"
    /\ call' = [call EXCEPT !.pc = IF call.silence_segments = << >>
                                   THEN "copied" ELSE "loop"]
    /\ UNCHANGED << jobvars, poll, wsvars >>

SpeechStart_at_zero(prev_end, padding) == 0

\* max(0, prev_end - padding)
SpeechStart(prev_end, padding) == Max(0, prev_end - padding)

\* if speech_end > speech_start + 0.1
KeepsInterval(speech_start, speech_end) == speech_end > speech_start + MinKeep

\* one pass of `for seg in silence_segments`
SilenceIterate ==
    /\ call.fn = "_remove_silence_ffmpeg"
    /\ call.pc = "loop"
    /\ call.i <= Len(call.silence_segments)
    /\ LET seg == call.silence_segments[call.i]
           speech_start == SpeechStart(call.prev_end, call.padding)
           speech_end == Min(call.duration, seg.start + call.padding)
       IN call' = [call EXCEPT
                     !.i = @ + 1,
                     !.prev_end = seg.end,
                     !.speech_segments =
                         IF KeepsInterval(speech_start, speech_end)
                         THEN Append(@, << speech_start, speech_end >>)
                         ELSE @]
    /\ UNCHANGED << jobvars, poll, wsvars >>

\* the last speech segment; copy the file when no segment is kept,
\* otherwise go on to extract the segments
SilenceLast ==
    /\ call.fn = "_remove_silence_ffmpeg"
    /\ call.pc = "loop"
    /\ call.i > Len(call.silence_segments)
    /\ LET segs == IF call.prev_end < call.duration
                   THEN Append(call.speech_segments,
                               << SpeechStart(call.prev_end, call.padding),
                                  call.duration >>)
                   ELSE call.speech_segments
       IN call' = [call EXCEPT
                     !.speech_segments = segs,
                     !.pc = IF segs = << >> THEN "copied" ELSE "extract"]
    /\ UNCHANGED << jobvars, poll, wsvars >>

InitSilence ==
    /\ ServiceIdle
    /\ \E c \in SilenceCallers, d \in SourceDurations :
         \E l \in SilenceLists(d, c.min_silence) :
            call = SilenceCall(c, d, l)

NextSilence ==
    \/ SilenceStart
    \/ SilenceIterate
    \/ SilenceLast

SpecSilence == InitSilence /\ [][NextSilence]_vars

\* C15: every keep-interval lies within [0, duration] and is at least 0.1 s
\* long, with padding 0.2 and with padding 0.05; a 10 s source with silence
\* [2, 3] and padding 0.2 gives the keep-intervals [0, 2.2] and [2.8, 10].
C15_KeepIntervalsInSourceAndLongEnough ==
    call.fn = "_remove_silence_ffmpeg" =>
        /\ \A j \in 1..Len(call.speech_segments) :
              /\ call.speech_segments[j][1] >= 0
              /\ call.speech_segments[j][2] <= call.duration
              /\ call.speech_segments[j][2] - call.speech_segments[j][1]
                    >= MinKeep
        /\ (/\ call.pc = "extract"
            /\ call.duration = 1000
            /\ call.padding = RemoveSilencePadding
            /\ call.silence_segments = << [start |-> 200, end |-> 300] >>)
             => call.speech_segments = << << 0, 220 >>, << 280, 1000 >> >>

(***************************************************************************)
(* Beat sync: tasks._smart_edit_beat_sync, smart_edit.detect_beat_         *)
(* timestamps and smart_edit.generate_beat_sync_clips.  Beat times and     *)
(* durations are whole milliseconds; a clip is [startTime, endTime,        *)
(* trimStart, name, transitionIn], name being the number in "Beat <n>".    *)
(***************************************************************************)
\* most beats of the music that is tried
MaxBeats == 3

\* the instants of the beats
BeatTimes == {0, 200, 400, 500, 900, 1000, 1500, 2000}

\* the beats in increasing order, as beat_track and a stored beat list
\* give them
RECURSIVE SortedSeq(_)
SortedSeq(S) ==
    IF S = {} THEN << >>
    ELSE LET m == CHOOSE x \in S : \A y \in S : x <= y
         IN << m >> \o SortedSeq(S \ {m})

BeatLists == {SortedSeq(S) : S \in {T \in SUBSET BeatTimes :
                                        Cardinality(T) <= MaxBeats}}

\* sensitivity, in tenths: Field(ge=0.1, le=3.0)
SensitivityScale == 10
Sensitivities == {1, 5, 10, 15, 20, 25, 30}

\* min_clip_duration_ms: Field(ge=200, le=5000)
MinClipDurations == {200, 500, 1000}

\* asset.duration_ms or 0, or the probed duration
VideoDurations == {0, 1000, 1550, 1800}

\* if end_ms - start_ms < 100: continue
MinSegmentMs == 100

\* min(300, ...)
MaxTransitionMs == 300

\* a clip without the transitionIn key
NoTransition == [type |-> "none", durationMs |-> 0]

\* beat_times_sec[::step]
RECURSIVE EveryNth(_, _)
EveryNth(s, step) ==
    IF s = << >> THEN << >>
    ELSE << Head(s) >> \o EveryNth(SubSeq(s, step + 1, Len(s)), step)

BeatCall(source, beats, sensitivity, min_clip, duration, transitions) ==
    [fn |-> "_smart_edit_beat_sync", pc |-> "start", source |-> source,
     beats |-> beats, sensitivity |-> sensitivity,
     min_clip_duration_ms |-> min_clip, video_duration |-> duration,
     include_transitions |-> transitions,
     filtered_beats |-> << >>, i |-> 1, prev |-> 0, result |-> << >>,
     beat_ms |-> << >>, cut_points |-> << >>, n |-> 1, clips |-> << >>]

\* the music track has stored beats: beat_ms = mt.beat_timestamps["beats_ms"]
BeatPrecomputed ==
    /\ call.fn = "_smart_edit_beat_sync"
    /\ call.pc = "start"
    /\ call.source = "music_track"
    /\ call' = [call EXCEPT !.pc = "cut", !.beat_ms = call.beats]
    /\ UNCHANGED << jobvars, poll, wsvars >>

\* detect_beat_timestamps: step = max(1, round(sensitivity)), every step-th
\* beat
BeatSubsample ==
    /\ call.fn = "_smart_edit_beat_sync"
    /\ call.pc = "start"
    /\ call.source = "audio"
    /\ LET step == Max(1, RoundHalfEven(call.sensitivity, SensitivityScale))
       IN call' = [call EXCEPT !.pc = "filter",
                               !.filtered_beats = EveryNth(call.beats, step)]
    /\ UNCHANGED << jobvars, poll, wsvars >>

\* if bt - prev >= min_clip_duration_ms
FarEnough(bt, prev, min_clip) == bt - prev >= min_clip

\* one pass of `for bt in beat_times_ms`
BeatFilter ==
    /\ call.fn = "_smart_edit_beat_sync"
    /\ call.pc = "filter"
    /\ call.i <= Len(call.filtered_beats)
    /\ LET bt == call.filtered_beats[call.i]
           keep == FarEnough(bt, call.prev, call.min_clip_duration_ms)
       IN call' = [call EXCEPT
                     !.i = @ + 1,
                     !.result = IF keep THEN Append(@, bt) ELSE @,
                     !.prev = IF keep THEN bt ELSE @]
    /\ UNCHANGED << jobvars, poll, wsvars >>

\* return result; a probed duration when asset.duration_ms is not set
BeatDetected ==
    /\ call.fn = "_smart_edit_beat_sync"
    /\ call.pc = "filter"
    /\ call.i > Len(call.filtered_beats)
    /\ call' = [call EXCEPT !.pc = "cut", !.beat_ms = call.result]
    /\ UNCHANGED << jobvars, poll, wsvars >>

\* generate_beat_sync_clips: cut_points = [0.0] + beats, those below the
\* duration, then the duration
BeatCutPoints ==
    /\ call.fn = "_smart_edit_beat_sync"
    /\ call.pc = "cut"
    /\ LET all == << 0 >> \o call.beat_ms
           below == SelectSeq(all, LAMBDA p : p < call.video_duration)
       IN call' = [call EXCEPT
                     !.pc = "clips",
                     !.cut_points = Append(below, call.video_duration)]
    /\ UNCHANGED << jobvars, poll, wsvars >>

\* one pass of `for i in range(len(cut_points) - 1)`, n being i + 1
BeatClip ==
    /\ call.fn = "_smart_edit_beat_sync"
    /\ call.pc = "clips"
    /\ call.n <= Len(call.cut_points) - 1
    /\ LET start_ms == call.cut_points[call.n]
           end_ms == call.cut_points[call.n + 1]
           clip == [startTime |-> start_ms, endTime |-> end_ms,
                    trimStart |-> start_ms, name |-> call.n,
                    transitionIn |->
                        IF call.include_transitions /\ call.n - 1 > 0
                        THEN [type |-> "fade",
                              durationMs |-> Min(MaxTransitionMs,
                                                 (end_ms - start_ms) \div 4)]
                        ELSE NoTransition]
       IN call' = [call EXCEPT
                     !.n = @ + 1,
                     !.clips = IF end_ms - start_ms < MinSegmentMs THEN @
                               ELSE Append(@, clip)]
    /\ UNCHANGED << jobvars, poll, wsvars >>

\* return clips
BeatReturn ==
    /\ call.fn = "_smart_edit_beat_sync"
    /\ call.pc = "clips"
    /\ call.n > Len(call.cut_points) - 1
    /\ call' = [call EXCEPT !.pc = "returned"]
    /\ UNCHANGED << jobvars, poll, wsvars >>

InitBeat ==
    /\ ServiceIdle
    /\ \E source \in {"music_track", "audio"}, beats \in BeatLists,
          s \in Sensitivities, m \in MinClipDurations, d \in VideoDurations,
          transitions \in BOOLEAN :
         /\ source = "music_track" => beats # << >> /\ s = SensitivityScale
         /\ source = "audio" => d > 0
         /\ call = BeatCall(source, beats, s, m, d, transitions)

NextBeat ==
    \/ BeatPrecomputed
    \/ BeatSubsample
    \/ BeatFilter
    \/ BeatDetected
    \/ BeatCutPoints
    \/ BeatClip
    \/ BeatReturn

SpecBeat == InitBeat /\ [][NextBeat]_vars

\* C16: the cut points of a beat_sync job are strictly increasing, and every
\* adjacent pair but the one that ends at the last point is at least
\* min_clip_duration_ms apart.
C16_CutPointsIncreasingAndApart ==
    call.fn = "_smart_edit_beat_sync" /\ call.pc = "returned" =>
        LET cp == call.cut_points
        IN /\ \A j \in 1..(Len(cp) - 1) : cp[j] < cp[j + 1]
           /\ \A j \in 1..(Len(cp) - 2) :
                cp[j + 1] - cp[j] >= call.min_clip_duration_ms

(***************************************************************************)
(* smart_edit.detect_highlights from the ranked windows on: the candidate  *)
(* filter, the de-duplication and the final sort.  The scores come from    *)
(* the audio analysis, so the windows arrive in any score order.  Frame    *)
(* idx is at idx * HopLength / SampleRate seconds.                         *)
(***************************************************************************)
SampleRate == 22050
HopLength == 512

\* most ranked windows that are tried
MaxCandidates == 3

\* (min_duration_ms, max_duration_ms): the defaults, and 1000 with 3000
HighlightLimits == {[min_duration_ms |-> 3000, max_duration_ms |-> 15000],
                    [min_duration_ms |-> 1000, max_duration_ms |-> 3000]}

MaxHighlightsValues == {1, 5}

\* min_len: the number of analysis frames
FrameCounts == {400, 1500}

\* frames at which a ranked window may start
StartFrames == {0, 387}

\* int((duration_ms / 1000.0) * sr / hop_length)
FramesOf(duration_ms) == (duration_ms * SampleRate) \div (HopLength * 1000)

\* [window_frames, mid_window, max_window_frames]
WindowSizes(lim) ==
    {FramesOf(lim.min_duration_ms),
     (FramesOf(lim.min_duration_ms) + FramesOf(lim.max_duration_ms)) \div 2,
     FramesOf(lim.max_duration_ms)}

\* round(x * 1000) for the time x of `frames` frames, in milliseconds
FramesToMs(frames) == RoundHalfEven(frames * HopLength * 1000, SampleRate)

\* the windows np.argsort can rank: win_size <= min_len and a start index
\* of the "valid" convolution
Windows(lim, min_len) ==
    {w \in [idx : StartFrames \cup {min_len - s : s \in WindowSizes(lim)},
            win_size : WindowSizes(lim)] :
        /\ w.win_size <= min_len
        /\ w.idx >= 0
        /\ w.idx <= min_len - w.win_size}

\* the windows in descending score order, each at most once
RankedWindows(lim, min_len) ==
    UNION {{s \in [1..n -> Windows(lim, min_len)] :
               \A i, j \in 1..n : i # j => s[i] # s[j]} :
           n \in 0..MaxCandidates}

HighlightsCall(lim, max_highlights, min_len, ranked) ==
    [fn |-> "detect_highlights", pc |-> "scan",
     min_duration_ms |-> lim.min_duration_ms,
     max_duration_ms |-> lim.max_duration_ms,
     max_highlights |-> max_highlights, min_len |-> min_len,
     ranked |-> ranked, i |-> 1, candidates |-> << >>, highlights |-> << >>]

\* one ranked window: end_idx, dur_ms, the duration filter and the
\* candidate record
HighlightScan ==
    /\ call.fn = "detect_highlights"
    /\ call.pc = "scan"
    /\ call.i <= Len(call.ranked)
    /\ LET w == call.ranked[call.i]
           end_idx == Min(w.idx + w.win_size, call.min_len - 1)
           frames == end_idx - w.idx
           tooShort == frames * HopLength * 1000
                          < call.min_duration_ms * SampleRate
           tooLong == frames * HopLength * 1000
                          > call.max_duration_ms * SampleRate
           c == [start_ms |-> FramesToMs(w.idx),
                 end_ms |-> FramesToMs(end_idx),
                 duration_ms |-> FramesToMs(frames)]
       IN call' = [call EXCEPT
                     !.i = @ + 1,
                     !.candidates = IF tooShort \/ tooLong THEN @
                                    ELSE Append(@, c)]
    /\ UNCHANGED << jobvars, poll, wsvars >>

\* candidates.sort(key=score, reverse=True): the order of `ranked`
HighlightRanked ==
    /\ call.fn = "detect_highlights"
    /\ call.pc = "scan"
    /\ call.i > Len(call.ranked)
    /\ call' = [call EXCEPT !.pc = "dedupe", !.i = 1]
    /\ UNCHANGED << jobvars, poll, wsvars >>

Overlaps_never(c, h) == FALSE

\* c["start_ms"] < h["end_ms"] and c["end_ms"] > h["start_ms"]
Overlaps(c, h) == c.start_ms < h.end_ms /\ c.end_ms > h.start_ms

\* one pass of `for c in candidates`, with the break at max_highlights
HighlightDedupe ==
    /\ call.fn = "detect_highlights"
    /\ call.pc = "dedupe"
    /\ call.i <= Len(call.candidates)
    /\ LET c == call.candidates[call.i]
           overlap == \E j \in 1..Len(call.highlights) :
                          Overlaps(c, call.highlights[j])
           kept == IF overlap THEN call.highlights
                   ELSE Append(call.highlights, c)
       IN call' = [call EXCEPT
                     !.highlights = kept,
                     !.i = IF Len(kept) >= call.max_highlights
                           THEN Len(call.candidates) + 1 ELSE @ + 1]
    /\ UNCHANGED << jobvars, poll, wsvars >>

\* list.sort by start_ms: a stable insertion into the sorted rest
RECURSIVE InsertByStart(_, _)
InsertByStart(h, sorted) ==
    IF sorted = << >> THEN << h >>
    ELSE IF h.start_ms < Head(sorted).start_ms THEN << h >> \o sorted
    ELSE << Head(sorted) >> \o InsertByStart(h, Tail(sorted))

RECURSIVE SortByStart(_)
SortByStart(hs) ==
    IF hs = << >> THEN << >>
    ELSE InsertByStart(hs[Len(hs)], SortByStart(SubSeq(hs, 1, Len(hs) - 1)))

\* highlights.sort(key=start_ms); return highlights
HighlightSort ==
    /\ call.fn = "detect_highlights"
    /\ call.pc = "dedupe"
    /\ call.i > Len(call.candidates)
    /\ call' = [call EXCEPT !.pc = "returned",
                            !.highlights = SortByStart(@)]
    /\ UNCHANGED << jobvars, poll, wsvars >>

InitHighlights ==
    /\ ServiceIdle
    /\ \E lim \in HighlightLimits, m \in MaxHighlightsValues,
          n \in FrameCounts :
         \E r \in RankedWindows(lim, n) :
            call = HighlightsCall(lim, m, n, r)

NextHighlights ==
    \/ HighlightScan
    \/ HighlightRanked
    \/ HighlightDedupe
    \/ HighlightSort

SpecHighlights == InitHighlights /\ [][NextHighlights]_vars

\* C17: in the returned list no two intervals overlap, the intervals are in
\* the order of their start times, and every duration_ms is at least
\* min_duration_ms and at most max_duration_ms.
C17_HighlightsDisjointSortedBounded ==
    call.fn = "detect_highlights" /\ call.pc = "returned" =>
        LET hs == call.highlights
        IN /\ \A a, b \in 1..Len(hs) :
                a < b => /\ hs[a].start_ms <= hs[b].start_ms
                         /\ hs[a].end_ms <= hs[b].start_ms
           /\ \A a \in 1..Len(hs) :
                /\ hs[a].duration_ms >= call.min_duration_ms
                /\ hs[a].duration_ms <= call.max_duration_ms

C17_Witness ==
    /\ call.fn = "detect_highlights"
    /\ call.pc = "returned"
    /\ Len(call.candidates) = 3
    /\ Len(call.highlights) = 2
    /\ call.max_highlights = 5
    /\ call.candidates[1].start_ms > call.candidates[2].start_ms

(***************************************************************************)
(* smart_edit.build_montage_clips.  Durations are whole milliseconds; the  *)
(* target durations tried divide evenly by the number of assets.           *)
(***************************************************************************)
\* most assets of a montage that is tried
MaxAssets == 3

\* asset.get("duration_ms") or 5000
DefaultAssetDuration == 5000

\* STYLE_PRESETS[style]["avg_clip_duration_ms"]; an unknown style gets the
\* preset of "cinematic"
AvgClipMs(style) ==
    CASE style = "fast_paced" -> 1500
      [] style = "slideshow" -> 5000
      [] OTHER -> 4000

Styles == {"fast_paced", "cinematic", "slideshow", "vlog"}

\* target_duration_ms: 0 stands for None
TargetDurations == {0, 12000, 36000}

\* duration_ms of an asset: 0 stands for None, as images have it
MontageAssets == [asset_type : {"image", "video"},
                  duration_ms : {0, 3000, 8000}]

AssetLists == UNION {[1..n -> MontageAssets] : n \in 0..MaxAssets}

MontageCall(assets, style, target, transitions) ==
    [fn |-> "build_montage_clips", pc |-> "start", assets |-> assets,
     style |-> style, target_duration_ms |-> target,
     include_transitions |-> transitions, per_clip_ms |-> 0, i |-> 1,
     timeline_cursor |-> 0, clips |-> << >>]

\* per_clip_ms = target_duration_ms / n_assets, or the preset's duration
MontageStart ==
    /\ call.fn = "build_montage_clips"
    /\ call.pc = "start"
    /\ call' = [call EXCEPT
                  !.pc = "loop",
                  !.per_clip_ms =
                      IF call.target_duration_ms # 0 /\ Len(call.assets) > 0
                      THEN call.target_duration_ms \div Len(call.assets)
                      ELSE AvgClipMs(call.style)]
    /\ UNCHANGED << jobvars, poll, wsvars >>

\* one pass of `for i, asset in enumerate(assets)`
MontageClip ==
    /\ call.fn = "build_montage_clips"
    /\ call.pc = "loop"
    /\ call.i <= Len(call.assets)
    /\ LET asset == call.assets[call.i]
           asset_duration == IF asset.duration_ms # 0 THEN asset.duration_ms
                             ELSE DefaultAssetDuration
           wanted == IF asset.asset_type = "image" THEN call.per_clip_ms
                     ELSE Min(call.per_clip_ms, asset_duration)
           trimmed == asset_duration > wanted
           trim_start == IF trimmed THEN (asset_duration - wanted) \div 2
                         ELSE 0
           clip_duration == IF trimmed THEN wanted ELSE asset_duration
           clip == [startTime |-> call.timeline_cursor,
                    endTime |-> call.timeline_cursor + clip_duration,
                    trimStart |-> trim_start,
                    duration |-> asset_duration,
                    type |-> IF asset.asset_type # "image" THEN "video"
                             ELSE "image",
                    transitionIn |-> call.include_transitions /\ call.i > 1]
       IN call' = [call EXCEPT
                     !.i = @ + 1,
                     !.clips = Append(@, clip),
                     !.timeline_cursor = @ + clip_duration]
    /\ UNCHANGED << jobvars, poll, wsvars >>

\* return clips
MontageReturn ==
    /\ call.fn = "build_montage_clips"
    /\ call.pc = "loop"
    /\ call.i > Len(call.assets)
    /\ call' = [call EXCEPT !.pc = "returned"]
    /\ UNCHANGED << jobvars, poll, wsvars >>

InitMontage ==
    /\ ServiceIdle
    /\ \E a \in AssetLists, s \in Styles, t \in TargetDurations,
          tr \in BOOLEAN :
         call = MontageCall(a, s, t, tr)

NextMontage ==
    \/ MontageStart
    \/ MontageClip
    \/ MontageReturn

SpecMontage == InitMontage /\ [][NextMontage]_vars

\* the per-clip allotment: the target over the number of assets when a
\* target is given, otherwise the clip duration of the style preset
Allotment(c) ==
    IF c.target_duration_ms # 0
    THEN c.target_duration_ms \div Len(c.assets)
    ELSE AvgClipMs(c.style)

\* C18: the clip of every image asset is as long as the per-clip allotment
\* and has trimStart = 0; three image assets with style slideshow and no
\* target give three back-to-back clips of 5000 ms that end at 15000 ms.
C18_ImagesGetFullAllotment ==
    call.fn = "build_montage_clips" /\ call.pc = "returned" =>
        /\ \A j \in 1..Len(call.clips) :
              call.assets[j].asset_type = "image" =>
                 /\ call.clips[j].endTime - call.clips[j].startTime
                       = Allotment(call)
                 /\ call.clips[j].trimStart = 0
        /\ (/\ Len(call.assets) = 3
            /\ \A j \in 1..3 : call.assets[j] = [asset_type |-> "image",
                                                 duration_ms |-> 0]
            /\ call.style = "slideshow"
            /\ call.target_duration_ms = 0)
             => /\ \A j \in 1..3 :
                     /\ call.clips[j].startTime = 5000 * (j - 1)
                     /\ call.clips[j].endTime = 5000 * j
                /\ call.timeline_cursor = 15000

(***************************************************************************)
(* Properties of the job execution model, continued                        *)
(***************************************************************************)
\* C19: after a worker has published a progress value for the job, the
\* committed progress of the job record equals the value published last.
C19_PersistedProgressIsLastPublished ==
    published # NoMsg => db.progress = published.progress

(***************************************************************************)
(* Properties of build_export_command: inputs and the filter graph.        *)
(***************************************************************************)
BuiltCommand == call.fn = "build_export_command" /\ call.pc = "returned"

\* the sources that follow an -i option of the command, in order
RECURSIVE InputsOf(_)
InputsOf(cmd) ==
    IF Len(cmd) < 2 THEN << >>
    ELSE IF cmd[1] = "-i"
    THEN << cmd[2] >> \o InputsOf(SubSeq(cmd, 3, Len(cmd)))
    ELSE InputsOf(Tail(cmd))

RECURSIVE SourcesOfClips(_)
SourcesOfClips(clips) ==
    IF clips = << >> THEN << >>
    ELSE << Head(clips).source >> \o SourcesOfClips(Tail(clips))

\* the sources of the clips of the tracks of the given types, in track
\* order then clip order
RECURSIVE SourcesOf(_, _)
SourcesOf(tracks, types) ==
    IF tracks = << >> THEN << >>
    ELSE (IF Head(tracks).type \in types
          THEN SourcesOfClips(Head(tracks).clips) ELSE << >>)
         \o SourcesOf(Tail(tracks), types)

\* C21: the inputs of the built command are the clips of the video and
\* audio tracks, one input each, in track order then clip order, followed
\* by the sticker clips, one input each.
C21_OneInputPerClipInOrder ==
    BuiltCommand =>
        InputsOf(call.cmd) =
            SourcesOf(call.project.tracks, {"video", "audio"})
              \o SourcesOf(call.project.tracks, {"sticker"})

\* the labels that follow a -map option of the command
MapsOf(cmd) == {cmd[i + 1] : i \in {j \in 1..(Len(cmd) - 1) : cmd[j] = "-map"}}

\* the stages of the filter graph whose first filter is f, in order
StagesOf(fp, f) == SelectSeq(fp, LAMBDA s : Head(s.chain) = f)

\* the number of stages of the filter graph that produce the label
Producers(fp, label) == Cardinality({j \in 1..Len(fp) : fp[j].out = label})

\* the labels that the stages of the filter graph consume
Consumed(fp) == UNION {{fp[j].ins[n] : n \in 1..Len(fp[j].ins)} :
                       j \in 1..Len(fp)}

\* C22: the sticker overlays form a chain on the concatenated video: the
\* first overlay consumes the label that the video concat stage produces,
\* overlay k consumes the label of overlay k-1, every overlay produces a
\* label that no other stage produces, and the label of the last overlay is
\* the one that is mapped or that the subtitles stage consumes.
C22_OverlaysChainOnConcat ==
    BuiltCommand /\ call.sticker_overlays # << >> =>
        LET fp == call.filter_parts
            ov == StagesOf(fp, "overlay")
            concat == StagesOf(fp, "concat=v=1:a=0")
            subtitles == StagesOf(fp, "subtitles")
            last == ov[Len(ov)].out
        IN /\ Len(ov) = Len(call.sticker_overlays)
           /\ Len(concat) = 1
           /\ ov[1].ins[1] = concat[1].out
           /\ \A k \in 2..Len(ov) : ov[k].ins[1] = ov[k - 1].out
           /\ \A k \in 1..Len(ov) : Producers(fp, ov[k].out) = 1
           /\ IF subtitles # << >>
              THEN subtitles[1].ins = << last >>
              ELSE last \in MapsOf(call.cmd)

\* the filters of the graph that produce a video stream
VideoFilters == {"trim", "concat=v=1:a=0", "scale", "overlay", "subtitles"}

\* the video labels of the command: the video streams of its inputs and what
\* the video stages of its filter graph produce
VideoLabels(c) ==
    {VideoOf(i) : i \in 0..(c.input_index - 1)}
      \cup {c.filter_parts[j].out :
              j \in {n \in 1..Len(c.filter_parts) :
                       Head(c.filter_parts[n].chain) \in VideoFilters}}

\* the label produced by the last overlay, or by the video concat when the
\* graph has no overlay
LastOverlayOrConcat(fp) ==
    LET ov == StagesOf(fp, "overlay")
    IN IF ov # << >> THEN ov[Len(ov)].out
       ELSE StagesOf(fp, "concat=v=1:a=0")[1].out

HasVideoClip(tracks) ==
    \E i \in 1..Len(tracks) :
        tracks[i].type = "video" /\ tracks[i].clips # << >>

\* C23: with subtitle segments and a video clip the graph has one subtitles
\* stage; it consumes the label of the last overlay (of the video concat
\* without stickers), no stage after it consumes a video label, and its
\* output is the video stream that is mapped.  Without subtitle segments no
\* caption file is made, the graph has no subtitles stage, and the video
\* stream that is mapped, if any, is the last overlay/concat label.
C23_SubtitlesAreLastVideoStage ==
    BuiltCommand =>
        LET fp == call.filter_parts
            tracks == call.project.tracks
            videoMaps == MapsOf(call.cmd) \cap (VideoLabels(call) \cup {"outv"})
            burns == {j \in 1..Len(fp) : Head(fp[j].chain) = "subtitles"}
        IN /\ call.project.subs /\ HasVideoClip(tracks) =>
                \E j \in burns :
                    /\ burns = {j}
                    /\ fp[j].ins = << LastOverlayOrConcat(fp) >>
                    /\ \A i \in (j + 1)..Len(fp) :
                         \A n \in 1..Len(fp[i].ins) :
                             fp[i].ins[n] \notin VideoLabels(call)
                    /\ videoMaps = {fp[j].out}
           /\ ~call.project.subs =>
                /\ ~call.srt_path
                /\ burns = {}
                /\ IF HasVideoClip(tracks)
                   THEN videoMaps = {LastOverlayOrConcat(fp)}
                   ELSE videoMaps = {}

C23_Witness ==
    /\ BuiltCommand
    /\ call.project.subs
    /\ call.project.tracks =
           << [type |-> "video", clips |-> << Clip("a.mp4", 100) >>],
              [type |-> "sticker", clips |-> << Clip("b.png", 150) >>] >>
    /\ call.filter_parts[Len(call.filter_parts)] =
           Stage(<< "a0" >>, << "anull" >>, "outa")
    /\ call.filter_parts[Len(call.filter_parts) - 1] =
           Stage(<< "stk0" >>, << "subtitles" >>, "outsv")
    /\ MapsOf(call.cmd) = {"outsv", "outa"}

\* the stream specifiers of the inputs of the command
InputSpecifiers(cmd) ==
    UNION {{VideoOf(i), AudioOf(i)} : i \in 0..(Len(InputsOf(cmd)) - 1)}

\* C27: in the built command every label that a stage of the filter graph
\* consumes, and every label that a -map option names, is a stream
\* specifier of one of the inputs or is produced by exactly one stage of the
\* filter graph.
C27_ConsumedLabelsAreProduced ==
    BuiltCommand =>
        \A label \in Consumed(call.filter_parts) \cup MapsOf(call.cmd) :
            \/ label \in InputSpecifiers(call.cmd)
            \/ Producers(call.filter_parts, label) = 1

(***************************************************************************)
(* Properties of generate_beat_sync_clips.                                 *)
(***************************************************************************)
\* C24: the clips of a beat_sync job partition the source: there is a clip
\* when the source has a duration, the first clip starts at 0, every clip
\* starts where the one before it ends, the last clip ends at the duration
\* of the source, and with transitions enabled every clip after the first
\* has a transitionIn.
C24_ClipsPartitionSource ==
    call.fn = "_smart_edit_beat_sync" /\ call.pc = "returned" =>
        LET clips == call.clips
        IN /\ call.video_duration > 0 => clips # << >>
           /\ clips # << >> =>
                /\ clips[1].startTime = 0
                /\ clips[Len(clips)].endTime = call.video_duration
           /\ \A j \in 2..Len(clips) :
                /\ clips[j].startTime = clips[j - 1].endTime
                /\ call.include_transitions =>
                     clips[j].transitionIn # NoTransition

(***************************************************************************)
(* Properties of the job execution model: retries and the job record.      *)
(***************************************************************************)
\* C25: over all the attempts of a job, at most one output record (Asset
\* row) is persisted for it.
C25_AtMostOneOutputRecord == rows <= 1

(***************************************************************************)
(* Termination of _build_atempo_chain.                                     *)
(***************************************************************************)
\* C26: for every speed, zero and negative speeds included, the call of
\* _build_atempo_chain returns.
C26_AtempoChainTerminates == <>AtempoReturned

(***************************************************************************)
(* Properties of _remove_silence_ffmpeg, continued.                        *)
(***************************************************************************)
\* C28: the keep-intervals are in increasing order, each starts before it
\* ends, and no two of them overlap, for the silence lists of both callers
\* (ordered, disjoint, every silence at least min_silence long).
C28_KeepIntervalsOrderedDisjoint ==
    call.fn = "_remove_silence_ffmpeg" =>
        LET segs == call.speech_segments
        IN /\ \A j \in 1..Len(segs) : segs[j][1] < segs[j][2]
           /\ \A j \in 1..(Len(segs) - 1) :
                /\ segs[j][1] < segs[j + 1][1]
                /\ segs[j][2] <= segs[j + 1][1]

C28_Witness ==
    /\ call.fn = "_remove_silence_ffmpeg"
    /\ call.pc = "extract"
    /\ call.caller = "jump_cut"
    /\ call.duration = 1000
    /\ call.silence_segments = << [start |-> 60, end |-> 200],
                                  [start |-> 300, end |-> 340] >>
    /\ call.speech_segments = << << 0, 65 >>, << 195, 305 >>,
                                 << 335, 1000 >> >>

\* C29: the committed job record agrees with its status: completed comes
\* with progress 100, a result and no error_message; failed comes with an
\* error_message; processing was set by the start of an execution.
C29_JobRecordConsistent ==
    /\ db.status = COMPLETED =>
          /\ db.progress = 100
          /\ db.result # "none"
          /\ db.error = NoError
    /\ db.status = FAILED => db.error # NoError
    /\ db.status = PROCESSING => attempts > 0

(***************************************************************************)
(* The project room of api/v1/websocket.py: project_websocket handlers of  *)
(* the clients of one project, the _redis_listener tasks and the messages  *)
(* of the job-status channel.  Authentication and project access succeed   *)
(* and every send succeeds.  A listener holds at most one message that it  *)
(* has not handled yet.                                                    *)
(***************************************************************************)
\* not _project_rooms.get(project_id)
RoomEmpty(room) == ~room.present \/ room.members = {}

\* the task ids that no task and no handler's listener_task uses
FreeIds ==
    {l \in ListenerIds :
        /\ listeners[l] = "none"
        /\ \A c \in Clients : conn[c].listener_task # l}

\* listener_task.cancel(), if listener_task is not None
Cancel(task) ==
    IF task = NoTask THEN listeners
    ELSE [listeners EXCEPT ![task] = "none"]

Closed == [pc |-> "closed", listener_task |-> NoTask]

\* project_websocket from accept() to the receive loop: join the room and
\* start a listener if this is the first connection
JoinRoom(c) ==
    /\ conn[c].pc = "closed"
    /\ LET members == project_rooms.members \cup {c}
           start_listener == Cardinality(members) = 1
       IN /\ project_rooms' = [present |-> TRUE, members |-> members]
          /\ IF start_listener
             THEN \E l \in FreeIds :
                    /\ \A k \in FreeIds : l <= k
                    /\ conn' = [conn EXCEPT
                                  ![c] = [pc |-> "open", listener_task |-> l]]
                    /\ listeners' = [listeners EXCEPT ![l] = "listening"]
             ELSE /\ conn' = [conn EXCEPT
                                ![c] = [pc |-> "open",
                                        listener_task |-> NoTask]]
                  /\ UNCHANGED listeners
    /\ copies' = [copies EXCEPT ![c] = 0]
    /\ UNCHANGED << jobvars, poll, call >>

\* WebSocketDisconnect, then `finally`: leave the room and notify the
\* others; the broadcast suspends when there is another member, and the
\* rest of the block runs at once when there is none
LeaveRoom(c) ==
    /\ conn[c].pc = "open"
    /\ LET members == project_rooms.members \ {c}
       IN IF members = {}
          THEN /\ project_rooms' = NoRoom
               /\ listeners' = Cancel(conn[c].listener_task)
               /\ conn' = [conn EXCEPT ![c] = Closed]
          ELSE /\ project_rooms' = [project_rooms EXCEPT !.members = members]
               /\ conn' = [conn EXCEPT ![c].pc = "leaving"]
               /\ UNCHANGED listeners
    /\ UNCHANGED << jobvars, poll, call, copies >>

\* if not _project_rooms.get(project_id): drop the room and cancel the
\* listener this handler started, if it started one
LeaveCheck(c) ==
    /\ conn[c].pc = "leaving"
    /\ IF RoomEmpty(project_rooms)
       THEN /\ project_rooms' = NoRoom
            /\ listeners' = Cancel(conn[c].listener_task)
       ELSE UNCHANGED << project_rooms, listeners >>
    /\ conn' = [conn EXCEPT ![c] = Closed]
    /\ UNCHANGED << jobvars, poll, call, copies >>

\* a message is published on the job-status channel: every listener task
\* that is alive is subscribed and gets it
PubSubMessage ==
    /\ \A l \in ListenerIds : listeners[l] # "message"
    /\ listeners' = [l \in ListenerIds |->
                        IF listeners[l] = "listening" THEN "message"
                        ELSE listeners[l]]
    /\ copies' = [c \in Clients |-> 0]
    /\ UNCHANGED << jobvars, poll, call, project_rooms, conn >>

\* one pass of `async for message in pubsub.listen()`: break when the room
\* is empty, else send job_status to every member of the room
ListenerRelay(l) ==
    /\ listeners[l] = "message"
    /\ IF RoomEmpty(project_rooms)
       THEN /\ listeners' = [listeners EXCEPT ![l] = "none"]
            /\ UNCHANGED copies
       ELSE /\ listeners' = [listeners EXCEPT ![l] = "listening"]
            /\ copies' = [c \in Clients |->
                             IF c \in project_rooms.members
                             THEN copies[c] + 1 ELSE copies[c]]
    /\ UNCHANGED << jobvars, poll, call, project_rooms, conn >>

InitRooms ==
    /\ ServiceIdle
    /\ call = NoCall

NextRooms ==
    \/ \E c \in Clients : JoinRoom(c)
    \/ \E c \in Clients : LeaveRoom(c)
    \/ \E c \in Clients : LeaveCheck(c)
    \/ PubSubMessage
    \/ \E l \in ListenerIds : ListenerRelay(l)

SpecRooms == InitRooms /\ [][NextRooms]_vars

\* the _redis_listener tasks that are alive
Alive == {l \in ListenerIds : listeners[l] # "none"}

\* C30: at most one _redis_listener task is alive for the room, and no
\* client gets more than one job_status copy of a message.
C30_OneListenerPerRoom ==
    /\ Cardinality(Alive) <= 1
    /\ \A c \in Clients : copies[c] <= 1

====
